---- MODULE Spec2Model ----
(***************************************************************************)
(* A model of kiro_agent_sdk: the subprocess transport                     *)
(* (_internal/transport/subprocess_cli.py), the message parser             *)
(* (_internal/message_parser.py), the one-shot query() wrapper (query.py)  *)
(* and the multi-turn KiroSDKClient (client.py), together with the part of *)
(* asyncio's subprocess API the transport calls (create_subprocess_exec,   *)
(* Process.terminate / kill / wait, wait_for).                             *)
(***************************************************************************)
EXTENDS Integers, Sequences, FiniteSets, TLC

\* ------------------------------------------------------------------ bounds
MaxProcs == 2       \* processes spawned over one behaviour
MaxStops == 3       \* stop() calls a direct caller makes
MaxLines == 3       \* lines the process writes to its stdout
MaxSends == 2       \* send_message calls a direct caller makes
MaxExecs == 3       \* create_subprocess_exec calls over one behaviour
MaxVerbose == 2     \* largest KiroAgentOptions.verbose
MaxBuilds == 2      \* direct _build_command calls on one transport
MaxClientCalls == 3 \* start() calls, and stop() calls, on one KiroSDKClient
MaxBlocks == 2      \* content blocks of a message handed to the parser
MaxParses == 2      \* times a caller decodes the object it holds
MaxTasks == 2       \* tasks calling KiroSDKClient.start() concurrently
MaxAssigns == 2     \* attribute assignments a caller makes on one instance

Tasks == 1..MaxTasks

\* subprocess_cli.py:79  asyncio.wait_for(self.process.wait(), timeout=5.0)
GracePeriod == 5

None == 0           \* self.process is None

VARIABLES
    procs,      \* the OS processes spawned so far (index = identity)
    process,    \* KiroSubprocessTransport.process: None or an index of procs
    tpc,        \* where the running transport coroutine is suspended
    timer,      \* time elapsed inside wait_for(process.wait(), 5.0)
    ret,        \* how the last transport call ended
    stopTrace,  \* what the current (or last) stop() call did, in order
    stopCalls,  \* stop() calls made so far
    stopsDone,  \* stop() calls that returned since the last start()
    argv,       \* the command of the last create_subprocess_exec call
    execs,      \* create_subprocess_exec calls made so far
    wbuf,       \* bytes written to process.stdin and not yet drained
    stdinRecv,  \* bytes the process has received on its stdin
    sent,       \* messages handed to send_message, in call order
    gen,        \* state of the receive_messages() generator
    linesRead,  \* lines receive_messages has read from process.stdout
    yielded,    \* objects receive_messages has yielded
    recvErr,    \* the error receive_messages raised, if any
    qpc,        \* where query() is
    qmsg,       \* query(): the object received and not yet decoded
    qlog,       \* query(): the calls it made on the transport, and its yields
    qout,       \* query(): the messages it yielded to its consumer
    qerr,       \* query(): the error pending in the try body / raised to the caller
    qorig,      \* query(): the first error raised inside the try body
    cfg,        \* the KiroAgentOptions a caller configured its transport with
    cmd,        \* what the last direct _build_command(cfg) call returned
    cmd0,       \* the first direct _build_command(cfg) call: its result, and
                \* self.process at that time
    builds,     \* direct _build_command calls made so far
    _started,   \* KiroSDKClient._started
    _transport, \* KiroSDKClient._transport: None or the number of the instance
    cpc,        \* where the running KiroSDKClient coroutine is suspended
    cret,       \* how the last KiroSDKClient call ended
    created,    \* KiroSubprocessTransport instances the client created so far
    tstarted,   \* the instance whose start() last returned
    tstarts,    \* transport start() calls that returned since the last stop()
    tstops,     \* transport stop() calls awaited since start() last returned
    cstarts,    \* KiroSDKClient.start() calls made so far
    cstops,     \* KiroSDKClient.stop() calls made so far
    passed,     \* the options object the client last handed to transport.start
    wpc,        \* where the `async with client` statement is
    wval,       \* what __aenter__ returned
    werr,       \* the exception the body of the statement raised
    wout,       \* the exception that left the statement
    pin,        \* the JSON object a caller hands to the parser
    pout,       \* what the parser returned or raised for it, call by call
    obj,        \* the block or message instance a caller constructed
    oret,       \* how the caller's last constructor call or assignment ended
    assigns,    \* attribute assignments made on the instance so far
    spc,        \* where each task calling KiroSDKClient.start() is
    sown,       \* the transport instance each task bound to _transport
    spawned,    \* the process create_subprocess_exec spawned for each task
    tprocess    \* the process attribute of each transport instance created

execVars == <<argv, execs>>
transportVars ==
    <<procs, process, tpc, timer, ret, stopTrace, stopCalls, stopsDone, execVars>>
ioVars == <<wbuf, stdinRecv, sent, gen, linesRead, yielded, recvErr>>
queryVars == <<qpc, qmsg, qlog, qout, qerr, qorig>>
commandVars == <<cfg, cmd, cmd0, builds>>
clientVars ==
    <<_started, _transport, cpc, cret, created, tstarted, tstarts, tstops,
      cstarts, cstops, passed>>
withVars == <<wpc, wval, werr, wout>>
parserVars == <<pin, pout>>
typeVars == <<obj, oret, assigns>>
taskVars == <<spc, sown, spawned, tprocess>>
restVars == <<commandVars, clientVars, withVars, parserVars, typeVars, taskVars>>
userVars == <<queryVars, restVars>>
vars == <<transportVars, ioVars, userVars>>

\* ----------------------------------------------------- outcomes of a call
Ok(op) == [op |-> op, ok |-> TRUE, err |-> "none"]
Raised(op, e) == [op |-> op, ok |-> FALSE, err |-> e]

\* ------------------------------------------------------------ OS process
\* A process as asyncio.create_subprocess_exec returns it.  st is "running",
\* "exited" (returncode set, the subprocess transport still open) or "closed"
\* (the subprocess transport finalised after the exit: from then on
\* Process.send_signal raises ProcessLookupError).
NewProc == [st |-> "running", termCalls |-> 0, sigterm |-> 0, sigkill |-> 0]

Live(p) == procs[p].st = "running"
Exited(p) == procs[p].st \in {"exited", "closed"}

\* The process ends: by itself, or because of a signal it received.
ProcExit(p) ==
    /\ Live(p)
    /\ procs' = [procs EXCEPT ![p].st = "exited"]
    /\ UNCHANGED <<process, tpc, timer, ret, stopTrace, stopCalls, stopsDone>>
    /\ UNCHANGED <<execVars, ioVars, userVars>>

\* asyncio finalises the subprocess transport of an exited process.
ProcClose(p) ==
    /\ procs[p].st = "exited"
    /\ procs' = [procs EXCEPT ![p].st = "closed"]
    /\ UNCHANGED <<process, tpc, timer, ret, stopTrace, stopCalls, stopsDone>>
    /\ UNCHANGED <<execVars, ioVars, userVars>>

\* ------------------------------------------------------------- JSON text
\* A text is a sequence of tokens: the braces of an object, white space, the
\* members of an object (its keys and values, as json.dumps writes them
\* between the braces) and anything else.
Ch(c) == [ch |-> c]
Mem(o) == [members |-> o]
LB == Ch("{")
RB == Ch("}")
SP == Ch(" ")
NL == Ch("\n")
Junk == Ch("invalid json")

IsSpace(t) == t = SP \/ t = NL

\* str.strip(): drop the white space at both ends.
RECURSIVE lstrip(_)
lstrip(s) == IF s = <<>> \/ ~IsSpace(Head(s)) THEN s ELSE lstrip(Tail(s))

RECURSIVE rstrip(_)
rstrip(s) ==
    IF s = <<>> \/ ~IsSpace(s[Len(s)]) THEN s
    ELSE rstrip(SubSeq(s, 1, Len(s) - 1))

strip(s) == rstrip(lstrip(s))

\* json.dumps of an object: one line, no newline in it.
json_dumps(o) == <<LB, Mem(o), RB>>

\* json.loads: white space between tokens is insignificant; the text must be
\* one complete object.
json_loads(t) ==
    LET u == SelectSeq(t, LAMBDA x : ~IsSpace(x))
    IN  IF /\ Len(u) = 3
           /\ u[1] = LB
           /\ u[3] = RB
           /\ DOMAIN u[2] = {"members"}
        THEN [ok |-> TRUE, val |-> u[2].members]
        ELSE [ok |-> FALSE]

\* ---------------------------------------------------------- wire objects
\* The objects the process emits on its stdout (spec 6, inbound).
ObjAssistant ==
    [role |-> "assistant",
     content |-> <<[type |-> "text", text |-> "Hello"],
                   [type |-> "tool_use", id |-> "u1", name |-> "Bash",
                    input |-> [command |-> "ls"]]>>]
ObjToolResult ==
    [role |-> "tool_result", tool_use_id |-> "u1",
     content |-> <<[type |-> "text", text |-> "out"]>>]
ObjUnknownRole == [role |-> "system", content |-> <<>>]
ObjUnknownBlock ==
    [role |-> "assistant",
     content |-> <<[type |-> "text", text |-> "a"], [type |-> "image"]>>]
WireObjects == {ObjAssistant, ObjToolResult, ObjUnknownRole, ObjUnknownBlock}

\* The lines the process may write: blank, white space only, one object per
\* line (one of them indented), and a line that is no JSON document.
StdoutLines ==
    {<<NL>>, <<SP, SP, NL>>, <<LB, Junk, NL>>, <<SP>> \o json_dumps(ObjToolResult) \o <<NL>>}
        \cup {json_dumps(o) \o <<NL>> : o \in WireObjects \ {ObjToolResult}}

\* The prompts a caller sends, and the request object query() builds
\* (query.py:44-47).
Prompts == {"Hi", "What is 2 + 2?"}
PromptMessage(prompt) == [role |-> "user", content |-> prompt]

\* State of the streams of a freshly spawned process.
FreshIO ==
    /\ wbuf' = <<>>
    /\ stdinRecv' = <<>>
    /\ sent' = <<>>
    /\ gen' = "new"
    /\ linesRead' = <<>>
    /\ yielded' = <<>>
    /\ recvErr' = <<>>

\* ---------------------------------------------------------- Python values
\* A str is a sequence of pieces of text: "kiro-cli" is <<"kiro-cli">>, and
\* concatenation is \o.  The value of an optional field is None, a str or a
\* list of str.
PyNone == [py |-> "None"]
PyStr(s) == [py |-> "str", s |-> s]
PyList(xs) == [py |-> "list", items |-> xs]

\* The truth value of `if v:`: None, "" and [] are false.
Truthy(v) ==
    IF v.py = "None" THEN FALSE
    ELSE IF v.py = "str" THEN v.s # <<>>
    ELSE v.items # <<>>

\* sep.join(xs)
RECURSIVE join(_, _)
join(sep, xs) ==
    IF xs = <<>> THEN <<>>
    ELSE IF Len(xs) = 1 THEN xs[1]
    ELSE xs[1] \o sep \o join(sep, Tail(xs))

\* xs * n: n copies of the list, none for n <= 0.
RECURSIVE Times(_, _)
Times(xs, n) == IF n <= 0 THEN <<>> ELSE xs \o Times(xs, n - 1)

\* ------------------------------------------------------ KiroAgentOptions
\* types.py:61-86, the fields _build_command reads.  (system_prompt, model,
\* max_turns, temperature and mcp_servers are read nowhere in the package.)
KiroAgentOptions(cli_path, allowed_tools, trust_all_tools, resume_session, verbose) ==
    [cli_path |-> cli_path, allowed_tools |-> allowed_tools,
     trust_all_tools |-> trust_all_tools, resume_session |-> resume_session,
     verbose |-> verbose]

\* KiroAgentOptions(): every field at its default.
DefaultOptions == KiroAgentOptions(PyNone, PyNone, FALSE, PyNone, 0)

CliPaths == {PyNone, PyStr(<<"/opt/kiro/bin/kiro-cli">>)}
ToolLists ==
    {PyNone, PyList(<<>>), PyList(<< <<"Bash">> >>),
     PyList(<< <<"Bash">>, <<"Read">> >>)}
Sessions == {PyNone, PyStr(<<"session-123">>)}

\* The configurations a transport is given.
Configs ==
    {KiroAgentOptions(p, t, a, r, v) :
        p \in CliPaths, t \in ToolLists, a \in BOOLEAN, r \in Sessions,
        v \in 0..MaxVerbose}

\* The configurations a caller of start() passes.
StartOptions ==
    {DefaultOptions,
     KiroAgentOptions(PyStr(<<"/opt/kiro/bin/kiro-cli">>),
                      PyList(<< <<"Bash">>, <<"Read">> >>), FALSE, PyNone, 1)}

\* ------------------------------------------------------ _build_command()
\* subprocess_cli.py:16-29
_get_cli_path(options) ==
    IF Truthy(options.cli_path) THEN options.cli_path.s ELSE <<"kiro-cli">>

\* subprocess_cli.py:33
BaseArgs(options) == <<_get_cli_path(options), <<"chat">>, <<"--no-interactive">> >>

\* subprocess_cli.py:36-37
ToolArgs(options) ==
    IF Truthy(options.allowed_tools)
    THEN << <<"--trust-tools">>, join(<<",">>, options.allowed_tools.items) >>
    ELSE <<>>

\* subprocess_cli.py:38-39
TrustAllArgs(options) ==
    IF options.trust_all_tools THEN << <<"--trust-all-tools">> >> ELSE <<>>

\* subprocess_cli.py:42-43
ResumeArgs(options) ==
    IF Truthy(options.resume_session)
    THEN << <<"--resume">>, options.resume_session.s >>
    ELSE <<>>

\* subprocess_cli.py:46-47
VerboseArgs(options) ==
    IF options.verbose # 0 THEN Times(<< <<"-v">> >>, options.verbose) ELSE <<>>

\* _build_command putting the session flag before the tool flags.
_build_command_resume_first(options) ==
    BaseArgs(options) \o ResumeArgs(options) \o ToolArgs(options)
        \o TrustAllArgs(options) \o VerboseArgs(options)

\* _build_command passing an empty allow-list on, and leaving the session
\* flag out once the transport owns a process.
_build_command_stateful(options) ==
    BaseArgs(options)
        \o (IF options.allowed_tools.py = "list"
            THEN << <<"--trust-tools">>, join(<<",">>, options.allowed_tools.items) >>
            ELSE <<>>)
        \o TrustAllArgs(options)
        \o (IF process = None THEN ResumeArgs(options) ELSE <<>>)
        \o VerboseArgs(options)

\* _build_command emitting the verbosity flag once, whatever the count.
_build_command_verbose_once(options) ==
    BaseArgs(options) \o ToolArgs(options) \o TrustAllArgs(options)
        \o ResumeArgs(options)
        \o (IF options.verbose # 0 THEN << <<"-v">> >> ELSE <<>>)

\* _build_command letting trust_all_tools take precedence over the allow-list.
_build_command_exclusive(options) ==
    BaseArgs(options)
        \o (IF options.trust_all_tools THEN TrustAllArgs(options) ELSE ToolArgs(options))
        \o ResumeArgs(options) \o VerboseArgs(options)

\* subprocess_cli.py:31-49: cmd starts as the three fixed tokens and each if
\* block extends it in turn.
_build_command(options) ==
    BaseArgs(options) \o ToolArgs(options) \o TrustAllArgs(options)
        \o ResumeArgs(options) \o VerboseArgs(options)

\* ------------------------------------------------------------- start()
\* subprocess_cli.py:66-70: the message of the CLINotFoundError raised for
\* the command cmd.
CLINotFoundMessage(command) ==
    <<"kiro-cli not found at ">> \o command[1]
        \o <<". ", "Please install kiro-cli", " or ", "specify cli_path in options", ".">>

CLINotFoundError(command) ==
    [op |-> "start", ok |-> FALSE, err |-> "CLINotFoundError",
     msg |-> CLINotFoundMessage(command), cause |-> "FileNotFoundError"]

\* start() trying the spawn again, with the default executable, when the
\* configured one is not found.
StartOn_retry(owned, options) ==
    /\ tpc = "idle"
    /\ execs < MaxExecs
    /\ argv' = _build_command(options)
    /\ \/ /\ Len(procs) < MaxProcs
          /\ execs' = execs + 1
          /\ procs' = Append(procs, NewProc)
          /\ process' = Len(procs) + 1
          /\ ret' = Ok("start")
          /\ stopsDone' = 0
          /\ FreshIO
       \/ /\ execs' = execs + 2
          /\ ret' = CLINotFoundError(_build_command(DefaultOptions))
          /\ process' = owned
          /\ UNCHANGED <<procs, stopsDone>>
          /\ UNCHANGED ioVars
       \/ /\ execs' = execs + 1
          /\ ret' = Raised("start", "OSError")
          /\ process' = owned
          /\ UNCHANGED <<procs, stopsDone>>
          /\ UNCHANGED ioVars
    /\ UNCHANGED <<tpc, timer, stopTrace, stopCalls>>

\* subprocess_cli.py:51-70, run on a transport whose process attribute is
\* owned.  The command is built and create_subprocess_exec is called once.
\* The spawn either succeeds (self.process is rebound to the new process,
\* whatever it held before), fails with FileNotFoundError (re-raised as
\* CLINotFoundError) or fails with another OSError (PermissionError,
\* NotADirectoryError, ...), which the except clause does not catch; a
\* failed spawn leaves self.process as it was.
StartOn(owned, options) ==
    /\ tpc = "idle"
    /\ execs < MaxExecs
    /\ argv' = _build_command(options)
    /\ execs' = execs + 1
    /\ \/ /\ Len(procs) < MaxProcs
          /\ procs' = Append(procs, NewProc)
          /\ process' = Len(procs) + 1
          /\ ret' = Ok("start")
          /\ stopsDone' = 0
          /\ FreshIO
       \/ /\ ret' = CLINotFoundError(argv')
          /\ process' = owned
          /\ UNCHANGED <<procs, stopsDone>>
          /\ UNCHANGED ioVars
       \/ /\ ret' = Raised("start", "OSError")
          /\ process' = owned
          /\ UNCHANGED <<procs, stopsDone>>
          /\ UNCHANGED ioVars
    /\ UNCHANGED <<tpc, timer, stopTrace, stopCalls>>

start(options) == StartOn(process, options)

\* -------------------------------------------------------------- stop()
\* stop() without the test of self.process: None has no terminate().
stop_unguarded ==
    /\ tpc = "idle"
    /\ stopCalls' = stopCalls + 1
    /\ IF process = None
       THEN /\ ret' = Raised("stop", "AttributeError")
            /\ stopTrace' = <<"terminate">>
            /\ UNCHANGED <<procs, tpc, timer, stopsDone>>
       ELSE /\ procs' = [procs EXCEPT
                 ![process].termCalls = @ + 1,
                 ![process].sigterm = IF Live(process) THEN @ + 1 ELSE @]
            /\ stopTrace' = <<"terminate">>
            /\ IF procs[process].st = "closed"
               THEN /\ ret' = Raised("stop", "ProcessLookupError")
                    /\ UNCHANGED <<tpc, timer, stopsDone>>
               ELSE /\ tpc' = "stop_wait"
                    /\ timer' = 0
                    /\ UNCHANGED <<ret, stopsDone>>
    /\ UNCHANGED <<process, argv, execs>>
    /\ UNCHANGED ioVars

\* subprocess_cli.py:74-77: return if no process is owned, else
\* self.process.terminate().  terminate() on a running process delivers
\* SIGTERM; on an exited one it does nothing; on a closed one it raises.
stop ==
    /\ tpc = "idle"
    /\ stopCalls' = stopCalls + 1
    /\ IF process = None
       THEN /\ ret' = Ok("stop")
            /\ stopTrace' = <<>>
            /\ stopsDone' = stopsDone + 1
            /\ UNCHANGED <<procs, tpc, timer>>
       ELSE /\ procs' = [procs EXCEPT
                 ![process].termCalls = @ + 1,
                 ![process].sigterm = IF Live(process) THEN @ + 1 ELSE @]
            /\ stopTrace' = <<"terminate">>
            /\ IF procs[process].st = "closed"
               THEN /\ ret' = Raised("stop", "ProcessLookupError")
                    /\ UNCHANGED <<tpc, timer, stopsDone>>
               ELSE /\ tpc' = "stop_wait"
                    /\ timer' = 0
                    /\ UNCHANGED <<ret, stopsDone>>
    /\ UNCHANGED <<process, argv, execs>>
    /\ UNCHANGED ioVars

\* subprocess_cli.py:79: time passes while wait_for awaits process.wait().
stop_tick ==
    /\ tpc = "stop_wait"
    /\ Live(process)
    /\ timer < GracePeriod
    /\ timer' = timer + 1
    /\ UNCHANGED <<procs, process, tpc, ret, stopTrace, stopCalls, stopsDone>>
    /\ UNCHANGED <<execVars, ioVars, userVars>>

\* subprocess_cli.py:79: the process exited within the grace period.
stop_wait_exit ==
    /\ tpc = "stop_wait"
    /\ Exited(process)
    /\ tpc' = "idle"
    /\ ret' = Ok("stop")
    /\ stopTrace' = Append(stopTrace, "exited")
    /\ stopsDone' = stopsDone + 1
    /\ UNCHANGED <<procs, process, timer, stopCalls>>
    /\ UNCHANGED <<execVars, ioVars, userVars>>

\* stop() escalating without waiting for the grace period to elapse.
stop_timeout_early ==
    /\ tpc = "stop_wait"
    /\ Live(process)
    /\ tpc' = "stop_kill"
    /\ stopTrace' = Append(stopTrace, "timeout")
    /\ UNCHANGED <<procs, process, timer, ret, stopCalls, stopsDone>>
    /\ UNCHANGED <<execVars, ioVars, userVars>>

\* stop() waiting again on a timeout instead of escalating to kill().
stop_timeout_rewait ==
    /\ tpc = "stop_wait"
    /\ Live(process)
    /\ timer = GracePeriod
    /\ timer' = 0
    /\ stopTrace' = Append(SubSeq(stopTrace, 1, 1), "timeout")
    /\ UNCHANGED <<procs, process, tpc, ret, stopCalls, stopsDone>>
    /\ UNCHANGED <<execVars, ioVars, userVars>>

\* subprocess_cli.py:79-80: the grace period elapsed, wait_for raises
\* TimeoutError.
stop_timeout ==
    /\ tpc = "stop_wait"
    /\ Live(process)
    /\ timer = GracePeriod
    /\ tpc' = "stop_kill"
    /\ stopTrace' = Append(stopTrace, "timeout")
    /\ UNCHANGED <<procs, process, timer, ret, stopCalls, stopsDone>>
    /\ UNCHANGED <<execVars, ioVars, userVars>>

\* subprocess_cli.py:81: self.process.kill().  The process may have ended
\* between the timeout and this call; kill() then behaves as terminate().
stop_kill ==
    /\ tpc = "stop_kill"
    /\ stopTrace' = Append(stopTrace, "kill")
    /\ procs' = [procs EXCEPT
          ![process].sigkill = IF Live(process) THEN @ + 1 ELSE @]
    /\ IF procs[process].st = "closed"
       THEN /\ tpc' = "idle"
            /\ ret' = Raised("stop", "ProcessLookupError")
       ELSE /\ tpc' = "stop_killwait"
            /\ UNCHANGED ret
    /\ UNCHANGED <<process, timer, stopCalls, stopsDone>>
    /\ UNCHANGED <<execVars, ioVars, userVars>>

\* subprocess_cli.py:82: await self.process.wait(), with no timeout.
stop_kill_wait ==
    /\ tpc = "stop_killwait"
    /\ Exited(process)
    /\ tpc' = "idle"
    /\ ret' = Ok("stop")
    /\ stopTrace' = Append(stopTrace, "exited")
    /\ stopsDone' = stopsDone + 1
    /\ UNCHANGED <<procs, process, timer, stopCalls>>
    /\ UNCHANGED <<execVars, ioVars, userVars>>

\* ------------------------------------------------------- send_message()
\* send_message writing the serialization without the line terminator.
send_message_no_newline(message) ==
    /\ tpc = "idle"
    /\ process # None
    /\ wbuf' = wbuf \o json_dumps(message)
    /\ sent' = Append(sent, message)
    /\ tpc' = "send_drain"
    /\ UNCHANGED <<procs, process, timer, ret, stopTrace, stopCalls, stopsDone>>
    /\ UNCHANGED <<stdinRecv, gen, linesRead, yielded, recvErr>>
    /\ UNCHANGED execVars

\* spec 4.3 send_message: data = json.dumps(message) + "\n" is written to
\* process.stdin, then the call awaits drain().
send_message(message) ==
    /\ tpc = "idle"
    /\ process # None
    /\ wbuf' = wbuf \o json_dumps(message) \o <<NL>>
    /\ sent' = Append(sent, message)
    /\ tpc' = "send_drain"
    /\ UNCHANGED <<procs, process, timer, ret, stopTrace, stopCalls, stopsDone>>
    /\ UNCHANGED <<stdinRecv, gen, linesRead, yielded, recvErr>>
    /\ UNCHANGED execVars

\* drain(): the pipe takes the buffered bytes, in order.
send_drain ==
    /\ tpc = "send_drain"
    /\ wbuf # <<>>
    /\ Live(process)
    /\ stdinRecv' = Append(stdinRecv, Head(wbuf))
    /\ wbuf' = Tail(wbuf)
    /\ UNCHANGED transportVars
    /\ UNCHANGED <<sent, gen, linesRead, yielded, recvErr>>
    /\ UNCHANGED <<execVars, userVars>>

\* drain() is over once the buffer is empty: send_message returns.
send_return ==
    /\ tpc = "send_drain"
    /\ wbuf = <<>>
    /\ tpc' = "idle"
    /\ ret' = Ok("send")
    /\ UNCHANGED <<procs, process, timer, stopTrace, stopCalls, stopsDone>>
    /\ UNCHANGED <<execVars, ioVars, userVars>>

\* drain() on the pipe of a process that is gone raises (broken pipe).
send_fail ==
    /\ tpc = "send_drain"
    /\ wbuf # <<>>
    /\ Exited(process)
    /\ tpc' = "idle"
    /\ ret' = Raised("send", "ConnectionError")
    /\ UNCHANGED <<procs, process, timer, stopTrace, stopCalls, stopsDone>>
    /\ UNCHANGED <<execVars, ioVars, userVars>>

\* --------------------------------------------------- receive_messages()
\* spec 4.3 receive_messages: an async generator over process.stdout.
\* receive_next is one __anext__ of it: a finished generator (stream ended,
\* or an error raised) ends the iteration at once, otherwise the generator
\* runs on from where it was suspended.
EndOfIteration == [op |-> "recv", ok |-> TRUE, err |-> "none", end |-> TRUE]

receive_next ==
    /\ tpc = "idle"
    /\ process # None
    /\ IF gen \in {"done", "raised"}
       THEN /\ ret' = EndOfIteration
            /\ UNCHANGED tpc
       ELSE /\ tpc' = "recv"
            /\ UNCHANGED ret
    /\ UNCHANGED <<procs, process, timer, stopTrace, stopCalls, stopsDone>>
    /\ UNCHANGED <<execVars, ioVars>>

\* receive_messages treating a blank line as a document to parse.
receive_line_no_skip(line) ==
    /\ tpc = "recv"
    /\ Len(linesRead) < MaxLines
    /\ linesRead' = Append(linesRead, line)
    /\ LET data == json_loads(strip(line))
       IN  IF data.ok
           THEN /\ yielded' = Append(yielded, data.val)
                /\ gen' = "suspended"
                /\ tpc' = "idle"
                /\ ret' = Ok("recv")
                /\ UNCHANGED recvErr
           ELSE /\ recvErr' = <<[err |-> "CLIJSONDecodeError", raw_output |-> line]>>
                /\ gen' = "raised"
                /\ tpc' = "idle"
                /\ ret' = Raised("recv", "CLIJSONDecodeError")
                /\ UNCHANGED yielded
    /\ UNCHANGED <<procs, process, timer, stopTrace, stopCalls, stopsDone>>
    /\ UNCHANGED <<wbuf, stdinRecv, sent>>
    /\ UNCHANGED <<execVars, userVars>>

\* receive_messages skipping a malformed line and reading on.
receive_line_resync(line) ==
    /\ tpc = "recv"
    /\ Len(linesRead) < MaxLines
    /\ linesRead' = Append(linesRead, line)
    /\ LET text == strip(line)
           data == json_loads(text)
       IN  IF text = <<>> \/ ~data.ok
           THEN UNCHANGED <<tpc, ret, gen, yielded, recvErr>>
           ELSE /\ yielded' = Append(yielded, data.val)
                /\ gen' = "suspended"
                /\ tpc' = "idle"
                /\ ret' = Ok("recv")
                /\ UNCHANGED recvErr
    /\ UNCHANGED <<procs, process, timer, stopTrace, stopCalls, stopsDone>>
    /\ UNCHANGED <<wbuf, stdinRecv, sent>>
    /\ UNCHANGED <<execVars, userVars>>

\* One pass of the loop body over the next line of the stream: a line that
\* is blank once stripped is skipped, a line that parses is yielded, any
\* other line raises CLIJSONDecodeError carrying the line.
receive_line(line) ==
    /\ tpc = "recv"
    /\ Len(linesRead) < MaxLines
    /\ linesRead' = Append(linesRead, line)
    /\ LET text == strip(line)
           data == json_loads(text)
       IN  IF text = <<>>
           THEN UNCHANGED <<tpc, ret, gen, yielded, recvErr>>
           ELSE IF data.ok
           THEN /\ yielded' = Append(yielded, data.val)
                /\ gen' = "suspended"
                /\ tpc' = "idle"
                /\ ret' = Ok("recv")
                /\ UNCHANGED recvErr
           ELSE /\ recvErr' = <<[err |-> "CLIJSONDecodeError", raw_output |-> line]>>
                /\ gen' = "raised"
                /\ tpc' = "idle"
                /\ ret' = Raised("recv", "CLIJSONDecodeError")
                /\ UNCHANGED yielded
    /\ UNCHANGED <<procs, process, timer, stopTrace, stopCalls, stopsDone>>
    /\ UNCHANGED <<wbuf, stdinRecv, sent>>
    /\ UNCHANGED <<execVars, userVars>>

\* The stream closed (process exited or stdout closed): the sequence ends.
receive_eof ==
    /\ tpc = "recv"
    /\ gen' = "done"
    /\ tpc' = "idle"
    /\ ret' = EndOfIteration
    /\ UNCHANGED <<procs, process, timer, stopTrace, stopCalls, stopsDone>>
    /\ UNCHANGED <<wbuf, stdinRecv, sent, linesRead, yielded, recvErr>>
    /\ UNCHANGED <<execVars, userVars>>

\* ---------------------------------------------------------------- types
\* types.py:8-33: the content-block dataclasses.  type is a field with a
\* default and init=False: the constructor takes the other fields only.
TextBlock(text) == [class |-> "TextBlock", text |-> text, type |-> "text"]

ToolUseBlock(id, name, input) ==
    [class |-> "ToolUseBlock", id |-> id, name |-> name, input |-> input,
     type |-> "tool_use"]

ToolResultBlock(tool_use_id, content, is_error) ==
    [class |-> "ToolResultBlock", tool_use_id |-> tool_use_id,
     content |-> content, is_error |-> is_error, type |-> "tool_result"]

\* types.py:36-58: the message dataclasses; role is a field with a default
\* and init=False.
AssistantMessage(content) ==
    [class |-> "AssistantMessage", content |-> content, role |-> "assistant"]

UserMessage(content) ==
    [class |-> "UserMessage", content |-> content, role |-> "user"]

ToolResultMessage(tool_use_id, content) ==
    [class |-> "ToolResultMessage", tool_use_id |-> tool_use_id,
     content |-> content, role |-> "tool_result"]

BlockClasses == {"TextBlock", "ToolUseBlock", "ToolResultBlock"}
MessageClasses == {"AssistantMessage", "UserMessage", "ToolResultMessage"}

\* The name of the tag field of an instance, and the default its class
\* declares for it.
TagField(o) == IF o.class \in BlockClasses THEN "type" ELSE "role"

ClassTag(class) ==
    IF class = "TextBlock" THEN "text"
    ELSE IF class = "ToolUseBlock" THEN "tool_use"
    ELSE IF class = "ToolResultBlock" THEN "tool_result"
    ELSE IF class = "AssistantMessage" THEN "assistant"
    ELSE IF class = "UserMessage" THEN "user"
    ELSE "tool_result"

\* ------------------------------------------------------- message parser
\* dict.get(key): the value, or None for a missing key.
NoneValue == "None"
Get(d, k) == IF k \in DOMAIN d THEN d[k] ELSE NoneValue

Value(v) == [ok |-> TRUE, val |-> v]
KeyError(k) == [ok |-> FALSE, err |-> "KeyError", arg |-> k]
\* ValueError(f"{what}{tag}")
ValueError(what, tag) == [ok |-> FALSE, err |-> "ValueError", what |-> what, arg |-> tag]

\* d[k] for each k of keys, left to right: the first missing key, if any.
MissingKey(d, keys) ==
    LET miss == {i \in 1..Len(keys) : keys[i] \notin DOMAIN d}
    IN  IF miss = {} THEN NoneValue
        ELSE keys[CHOOSE i \in miss : \A j \in miss : i <= j]

\* The keys parse_content_block reads from a block of each type.
BlockKeys(block_type) ==
    IF block_type = "text" THEN {"type", "text"}
    ELSE IF block_type = "tool_use" THEN {"type", "id", "name", "input"}
    ELSE {"type", "tool_use_id", "content", "is_error"}

\* parse_content_block rejecting a block that carries a key it does not read.
parse_content_block_strict(block) ==
    LET block_type == Get(block, "type")
    IN  IF block_type = "text"
        THEN IF "text" \notin DOMAIN block THEN KeyError("text")
             ELSE IF DOMAIN block \subseteq BlockKeys("text")
             THEN Value(TextBlock(block.text))
             ELSE ValueError("Unexpected key in block of type: ", block_type)
        ELSE IF block_type = "tool_use"
        THEN IF MissingKey(block, <<"id", "name", "input">>) # NoneValue
             THEN KeyError(MissingKey(block, <<"id", "name", "input">>))
             ELSE IF DOMAIN block \subseteq BlockKeys("tool_use")
             THEN Value(ToolUseBlock(block.id, block.name, block.input))
             ELSE ValueError("Unexpected key in block of type: ", block_type)
        ELSE IF block_type = "tool_result"
        THEN IF MissingKey(block, <<"tool_use_id", "content">>) # NoneValue
             THEN KeyError(MissingKey(block, <<"tool_use_id", "content">>))
             ELSE IF DOMAIN block \subseteq BlockKeys("tool_result")
             THEN Value(ToolResultBlock(block.tool_use_id, block.content,
                                        IF "is_error" \in DOMAIN block
                                        THEN block.is_error ELSE FALSE))
             ELSE ValueError("Unexpected key in block of type: ", block_type)
        ELSE ValueError("Unknown content block type: ", block_type)

\* parse_content_block reading every key with a default, as it reads
\* is_error.
parse_content_block_defaulting(block) ==
    LET block_type == Get(block, "type")
    IN  IF block_type = "text"
        THEN Value(TextBlock(Get(block, "text")))
        ELSE IF block_type = "tool_use"
        THEN Value(ToolUseBlock(Get(block, "id"), Get(block, "name"),
                                Get(block, "input")))
        ELSE IF block_type = "tool_result"
        THEN Value(ToolResultBlock(Get(block, "tool_use_id"),
                                   Get(block, "content"),
                                   IF "is_error" \in DOMAIN block
                                   THEN block.is_error ELSE FALSE))
        ELSE ValueError("Unknown content block type: ", block_type)

\* parse_content_block not reading is_error.
parse_content_block_no_flag(block) ==
    LET block_type == Get(block, "type")
    IN  IF block_type = "text"
        THEN IF "text" \in DOMAIN block
             THEN Value(TextBlock(block.text))
             ELSE KeyError("text")
        ELSE IF block_type = "tool_use"
        THEN IF MissingKey(block, <<"id", "name", "input">>) = NoneValue
             THEN Value(ToolUseBlock(block.id, block.name, block.input))
             ELSE KeyError(MissingKey(block, <<"id", "name", "input">>))
        ELSE IF block_type = "tool_result"
        THEN IF MissingKey(block, <<"tool_use_id", "content">>) = NoneValue
             THEN Value(ToolResultBlock(block.tool_use_id, block.content, FALSE))
             ELSE KeyError(MissingKey(block, <<"tool_use_id", "content">>))
        ELSE ValueError("Unknown content block type: ", block_type)

\* message_parser.py:15-34
parse_content_block(block) ==
    LET block_type == Get(block, "type")
    IN  IF block_type = "text"
        THEN IF "text" \in DOMAIN block
             THEN Value(TextBlock(block.text))
             ELSE KeyError("text")
        ELSE IF block_type = "tool_use"
        THEN IF MissingKey(block, <<"id", "name", "input">>) = NoneValue
             THEN Value(ToolUseBlock(block.id, block.name, block.input))
             ELSE KeyError(MissingKey(block, <<"id", "name", "input">>))
        ELSE IF block_type = "tool_result"
        THEN IF MissingKey(block, <<"tool_use_id", "content">>) = NoneValue
             THEN Value(ToolResultBlock(block.tool_use_id, block.content,
                                        IF "is_error" \in DOMAIN block
                                        THEN block.is_error ELSE FALSE))
             ELSE KeyError(MissingKey(block, <<"tool_use_id", "content">>))
        ELSE ValueError("Unknown content block type: ", block_type)

\* The comprehension leaving out the blocks that fail to parse.
parse_blocks_skip_invalid(data) ==
    IF "content" \notin DOMAIN data THEN KeyError("content")
    ELSE LET blocks == data.content
             parsed == [i \in 1..Len(blocks) |-> parse_content_block(blocks[i])]
             good == SelectSeq(parsed, LAMBDA r : r.ok)
         IN  Value([i \in 1..Len(good) |-> good[i].val])

\* [parse_content_block(block) for block in data["content"]]: the blocks are
\* parsed in order and the first failure ends the comprehension.
parse_blocks(data) ==
    IF "content" \notin DOMAIN data THEN KeyError("content")
    ELSE LET blocks == data.content
             parsed == [i \in 1..Len(blocks) |-> parse_content_block(blocks[i])]
             bad == {i \in 1..Len(blocks) : ~parsed[i].ok}
         IN  IF bad = {}
             THEN Value([i \in 1..Len(blocks) |-> parsed[i].val])
             ELSE parsed[CHOOSE i \in bad : \A j \in bad : i <= j]

\* parse_message decoding a message of any other role as a user message.
parse_message_any_role(data) ==
    LET role == Get(data, "role")
        content == parse_blocks(data)
    IN  IF role = "assistant"
        THEN IF content.ok
             THEN Value(AssistantMessage(content.val))
             ELSE content
        ELSE IF role = "tool_result"
        THEN IF ~content.ok THEN content
             ELSE IF "tool_use_id" \notin DOMAIN data THEN KeyError("tool_use_id")
             ELSE Value(ToolResultMessage(data.tool_use_id, content.val))
        ELSE IF content.ok
             THEN Value(UserMessage(content.val))
             ELSE content

\* message_parser.py:37-56
parse_message(data) ==
    LET role == Get(data, "role")
        content == parse_blocks(data)
    IN  IF role = "assistant"
        THEN IF content.ok
             THEN Value(AssistantMessage(content.val))
             ELSE content
        ELSE IF role = "user"
        THEN IF content.ok
             THEN Value(UserMessage(content.val))
             ELSE content
        ELSE IF role = "tool_result"
        THEN IF ~content.ok THEN content
             ELSE IF "tool_use_id" \notin DOMAIN data THEN KeyError("tool_use_id")
             ELSE Value(ToolResultMessage(data.tool_use_id, content.val))
        ELSE ValueError("Unknown message role: ", role)

\* ------------------------------------------------------------- encoding
\* The JSON object of a block (spec 4.2, Encoding; spec 6, wire format): its
\* type tag and the fields of its variant.
encode_block(b) ==
    IF b.class = "TextBlock" THEN [type |-> b.type, text |-> b.text]
    ELSE IF b.class = "ToolUseBlock"
    THEN [type |-> b.type, id |-> b.id, name |-> b.name, input |-> b.input]
    ELSE [type |-> b.type, tool_use_id |-> b.tool_use_id,
          content |-> b.content, is_error |-> b.is_error]

\* The JSON object of a message: its role tag, its content as an array of
\* block objects in order, and the tool_use_id of a tool_result message.
encode_subset(m) ==
    LET content == [i \in 1..Len(m.content) |-> encode_block(m.content[i])]
    IN  IF m.class = "ToolResultMessage"
        THEN [role |-> m.role, tool_use_id |-> m.tool_use_id, content |-> content]
        ELSE [role |-> m.role, content |-> content]

\* --------------------------------------------------------------- query()
NoError == [err |-> "none"]
Error(e) == [err |-> e]

\* An exception leaves the try body of query(): control goes to the finally
\* clause with the exception pending.
Unwind(e) ==
    /\ qerr' = e
    /\ qorig' = e
    /\ qpc' = "finally"

\* query() going on to read responses without sending the prompt.
query_start_no_send ==
    /\ qpc = "init"
    /\ start(DefaultOptions)
    /\ qlog' = Append(qlog, "start")
    /\ IF ret'.ok
       THEN /\ qpc' = "receive"
            /\ UNCHANGED <<qerr, qorig>>
       ELSE Unwind(Error(ret'.err))
    /\ UNCHANGED <<qmsg, qout>>
    /\ UNCHANGED restVars

\* query.py:37-41: the transport is created and started inside the try.
query_start ==
    /\ qpc = "init"
    /\ start(DefaultOptions)
    /\ qlog' = Append(qlog, "start")
    /\ IF ret'.ok
       THEN /\ qpc' = "send"
            /\ UNCHANGED <<qerr, qorig>>
       ELSE Unwind(Error(ret'.err))
    /\ UNCHANGED <<qmsg, qout>>
    /\ UNCHANGED restVars

\* query.py:43-47: await transport.send_message({"role": "user", "content": prompt})
query_send ==
    /\ qpc = "send"
    /\ \E prompt \in Prompts : send_message(PromptMessage(prompt))
    /\ qlog' = Append(qlog, "send")
    /\ qpc' = "sending"
    /\ UNCHANGED <<qmsg, qout, qerr, qorig>>
    /\ UNCHANGED restVars

query_send_returned ==
    /\ qpc = "sending"
    /\ tpc = "idle"
    /\ IF ret.ok
       THEN /\ qpc' = "receive"
            /\ UNCHANGED <<qerr, qorig>>
       ELSE Unwind(Error(ret.err))
    /\ UNCHANGED <<qmsg, qlog, qout>>
    /\ UNCHANGED <<transportVars, ioVars, restVars>>

\* query.py:50: async for message_data in transport.receive_messages()
query_receive ==
    /\ qpc = "receive"
    /\ receive_next
    /\ qlog' = Append(qlog, "receive")
    /\ qpc' = "receiving"
    /\ UNCHANGED <<qmsg, qout, qerr, qorig>>
    /\ UNCHANGED restVars

query_received ==
    /\ qpc = "receiving"
    /\ tpc = "idle"
    /\ IF ~ret.ok
       THEN /\ Unwind(recvErr[1])
            /\ UNCHANGED qmsg
       ELSE IF "end" \in DOMAIN ret
       THEN /\ qpc' = "finally"
            /\ UNCHANGED <<qmsg, qerr, qorig>>
       ELSE /\ qmsg' = <<yielded[Len(yielded)]>>
            /\ qpc' = "parse"
            /\ UNCHANGED <<qerr, qorig>>
    /\ UNCHANGED <<qlog, qout>>
    /\ UNCHANGED <<transportVars, ioVars, restVars>>

\* query() dropping an object that fails to decode and reading on.
query_parse_skip_invalid ==
    /\ qpc = "parse"
    /\ LET message == parse_message(qmsg[1])
       IN  IF message.ok
           THEN /\ qout' = Append(qout, message.val)
                /\ qlog' = Append(qlog, "yield")
                /\ qpc' = "yielded"
           ELSE /\ qpc' = "receive"
                /\ UNCHANGED <<qout, qlog>>
    /\ qmsg' = <<>>
    /\ UNCHANGED <<qerr, qorig>>
    /\ UNCHANGED <<transportVars, ioVars, restVars>>

\* query.py:51-52: message = parse_message(message_data); yield message
query_parse ==
    /\ qpc = "parse"
    /\ LET message == parse_message(qmsg[1])
       IN  IF message.ok
           THEN /\ qout' = Append(qout, message.val)
                /\ qlog' = Append(qlog, "yield")
                /\ qpc' = "yielded"
                /\ UNCHANGED <<qerr, qorig>>
           ELSE /\ Unwind([err |-> message.err, arg |-> message.arg])
                /\ UNCHANGED <<qout, qlog>>
    /\ qmsg' = <<>>
    /\ UNCHANGED <<transportVars, ioVars, restVars>>

\* The consumer asks for the next message: the generator resumes after the
\* yield and the loop goes round.
query_resume ==
    /\ qpc = "yielded"
    /\ qpc' = "receive"
    /\ UNCHANGED <<qmsg, qlog, qout, qerr, qorig>>
    /\ UNCHANGED <<transportVars, ioVars, restVars>>

\* The consumer closes the iteration (aclose): GeneratorExit is raised at
\* the yield and unwinds like any exception; aclose() then swallows it.
query_close ==
    /\ qpc = "yielded"
    /\ Unwind(Error("GeneratorExit"))
    /\ UNCHANGED <<qmsg, qlog, qout>>
    /\ UNCHANGED <<transportVars, ioVars, restVars>>

\* query.py:54-56: finally: await transport.stop()
query_stop ==
    /\ qpc = "finally"
    /\ stop
    /\ qlog' = Append(qlog, "stop")
    /\ qpc' = "stopping"
    /\ UNCHANGED <<qmsg, qout, qerr, qorig>>
    /\ UNCHANGED restVars

\* stop() has ended: the pending exception, if any, goes on to the caller,
\* unless stop() itself raised, which then takes its place.
query_finish ==
    /\ qpc = "stopping"
    /\ tpc = "idle"
    /\ qpc' = "done"
    /\ qerr' = IF ret.ok THEN qerr ELSE Error(ret.err)
    /\ UNCHANGED <<qmsg, qlog, qout, qorig>>
    /\ UNCHANGED <<transportVars, ioVars, restVars>>

\* --------------------------------------------------------- KiroSDKClient
\* client.py:37: self._options = options or KiroAgentOptions(): a reference
\* to the object the caller constructed the client with, whose fields are
\* cfg.
_options == [ref |-> "options", val |-> cfg]

\* start() creating and starting a transport whether or not one is started.
client_start_again ==
    /\ cpc = "idle"
    /\ tpc = "idle"
    /\ cstarts' = cstarts + 1
    /\ StartOn(None, _options.val)
    /\ passed' = <<_options>>
    /\ created' = created + 1
    /\ _transport' = created + 1
    /\ IF ret'.ok
       THEN /\ _started' = TRUE
            /\ tstarted' = created + 1
            /\ tstarts' = tstarts + 1
            /\ tstops' = 0
            /\ cret' = Ok("client.start")
       ELSE /\ cret' = Raised("client.start", ret'.err)
            /\ UNCHANGED <<_started, tstarted, tstarts, tstops>>
    /\ UNCHANGED <<cpc, cstops>>

\* start() handing the transport a copy of its options.
client_start_copy ==
    /\ cpc = "idle"
    /\ tpc = "idle"
    /\ cstarts' = cstarts + 1
    /\ IF _started
       THEN /\ cret' = Ok("client.start")
            /\ UNCHANGED <<transportVars, ioVars>>
            /\ UNCHANGED <<_started, _transport, created, tstarted, tstarts, tstops>>
            /\ UNCHANGED passed
       ELSE /\ StartOn(None, _options.val)
            /\ passed' = <<[ref |-> "copy", val |-> _options.val]>>
            /\ created' = created + 1
            /\ _transport' = created + 1
            /\ IF ret'.ok
               THEN /\ _started' = TRUE
                    /\ tstarted' = created + 1
                    /\ tstarts' = tstarts + 1
                    /\ tstops' = 0
                    /\ cret' = Ok("client.start")
               ELSE /\ cret' = Raised("client.start", ret'.err)
                    /\ UNCHANGED <<_started, tstarted, tstarts, tstops>>
    /\ UNCHANGED <<cpc, cstops>>

\* start() setting _started before it awaits transport.start().
client_start_eager ==
    /\ cpc = "idle"
    /\ tpc = "idle"
    /\ cstarts' = cstarts + 1
    /\ IF _started
       THEN /\ cret' = Ok("client.start")
            /\ UNCHANGED <<transportVars, ioVars>>
            /\ UNCHANGED <<_started, _transport, created, tstarted, tstarts, tstops>>
            /\ UNCHANGED passed
       ELSE /\ StartOn(None, _options.val)
            /\ passed' = <<_options>>
            /\ created' = created + 1
            /\ _transport' = created + 1
            /\ _started' = TRUE
            /\ IF ret'.ok
               THEN /\ tstarted' = created + 1
                    /\ tstarts' = tstarts + 1
                    /\ tstops' = 0
                    /\ cret' = Ok("client.start")
               ELSE /\ cret' = Raised("client.start", ret'.err)
                    /\ UNCHANGED <<tstarted, tstarts, tstops>>
    /\ UNCHANGED <<cpc, cstops>>

\* client.py:63-74.  A started client returns at once.  Otherwise a new
\* KiroSubprocessTransport (owning no process) is bound to _transport and
\* started with _options; _started is set once start() returned, and stays
\* false if it raised.
client_start ==
    /\ cpc = "idle"
    /\ tpc = "idle"
    /\ cstarts' = cstarts + 1
    /\ IF _started
       THEN /\ cret' = Ok("client.start")
            /\ UNCHANGED <<transportVars, ioVars>>
            /\ UNCHANGED <<_started, _transport, created, tstarted, tstarts, tstops>>
            /\ UNCHANGED passed
       ELSE /\ StartOn(None, _options.val)
            /\ passed' = <<_options>>
            /\ created' = created + 1
            /\ _transport' = created + 1
            /\ IF ret'.ok
               THEN /\ _started' = TRUE
                    /\ tstarted' = created + 1
                    /\ tstarts' = tstarts + 1
                    /\ tstops' = 0
                    /\ cret' = Ok("client.start")
               ELSE /\ cret' = Raised("client.start", ret'.err)
                    /\ UNCHANGED <<_started, tstarted, tstarts, tstops>>
    /\ UNCHANGED <<cpc, cstops>>

\* client.py:76-85: return if not started or no transport, else
\* await self._transport.stop().
client_stop ==
    /\ cpc = "idle"
    /\ tpc = "idle"
    /\ cstops' = cstops + 1
    /\ IF ~_started \/ _transport = None
       THEN /\ cret' = Ok("client.stop")
            /\ tstarts' = 0
            /\ UNCHANGED <<transportVars, ioVars>>
            /\ UNCHANGED <<cpc, tstops>>
       ELSE /\ stop
            /\ tstops' = tstops + 1
            /\ cpc' = "stopping"
            /\ UNCHANGED <<cret, tstarts>>
    /\ UNCHANGED <<_started, _transport, created, tstarted, cstarts, passed>>

\* client.py:85-86: transport.stop() has ended; _started is reset if it
\* returned, and the exception goes on to the caller if it raised.
client_stop_returned ==
    /\ cpc = "stopping"
    /\ tpc = "idle"
    /\ cpc' = "idle"
    /\ IF ret.ok
       THEN /\ _started' = FALSE
            /\ tstarts' = 0
            /\ cret' = Ok("client.stop")
       ELSE /\ cret' = Raised("client.stop", ret.err)
            /\ UNCHANGED <<_started, tstarts>>
    /\ UNCHANGED <<_transport, created, tstarted, tstops, cstarts, cstops, passed>>
    /\ UNCHANGED <<transportVars, ioVars, queryVars, commandVars, withVars, parserVars, typeVars, taskVars>>

\* client.py:41-48: `async with client as c` awaits start() and binds the
\* client to c; if start() raises, the statement ends without __aexit__.
with_enter ==
    /\ wpc = "out"
    /\ client_start
    /\ IF cret'.ok
       THEN /\ wpc' = "body"
            /\ wval' = "self"
            /\ UNCHANGED wout
       ELSE /\ wpc' = "done"
            /\ wout' = Error(cret'.err)
            /\ UNCHANGED wval
    /\ UNCHANGED werr
    /\ UNCHANGED <<queryVars, commandVars, parserVars, typeVars, taskVars>>

\* The exceptions the body of the statement may raise (NoError: none).
BodyOutcomes == {NoError, Error("ValueError")}

\* client.py:50-61: the body ended, normally or by raising, and __aexit__
\* awaits stop().
with_exit ==
    /\ wpc = "body"
    /\ \E e \in BodyOutcomes : werr' = e
    /\ client_stop
    /\ wpc' = "exiting"
    /\ UNCHANGED <<wval, wout>>
    /\ UNCHANGED <<queryVars, commandVars, parserVars, typeVars, taskVars>>

\* __aexit__ has ended.  It returns None, so the exception of the body goes
\* on; an exception raised by stop() takes its place.
with_done ==
    /\ wpc = "exiting"
    /\ cpc = "idle"
    /\ wpc' = "done"
    /\ wout' = IF cret.ok THEN werr ELSE Error(cret.err)
    /\ UNCHANGED <<wval, werr>>
    /\ UNCHANGED <<transportVars, ioVars, queryVars, commandVars, clientVars, parserVars, typeVars, taskVars>>

\* ----------------------------------- concurrent start() calls on a client
\* client.py:63-74 run by task t up to its first suspension: the guard, a
\* new KiroSubprocessTransport bound to _transport, and transport.start()
\* (subprocess_cli.py:51-70) up to `await create_subprocess_exec(...)`, which
\* spawns the process and suspends until its pipes are connected, or raises
\* at once.
task_start_call(t) ==
    /\ spc[t] = "idle"
    /\ IF _started
       THEN /\ spc' = [spc EXCEPT ![t] = "returned"]
            /\ UNCHANGED <<procs, execVars, _transport, created, passed>>
            /\ UNCHANGED <<sown, spawned, tprocess>>
       ELSE /\ created' = created + 1
            /\ _transport' = created + 1
            /\ sown' = [sown EXCEPT ![t] = created + 1]
            /\ tprocess' = Append(tprocess, None)
            /\ passed' = <<_options>>
            /\ argv' = _build_command(_options.val)
            /\ execs' = execs + 1
            /\ \/ /\ procs' = Append(procs, NewProc)
                  /\ spawned' = [spawned EXCEPT ![t] = Len(procs) + 1]
                  /\ spc' = [spc EXCEPT ![t] = "spawning"]
               \/ /\ spc' = [spc EXCEPT ![t] = "raised"]
                  /\ UNCHANGED <<procs, spawned>>
    /\ UNCHANGED <<process, tpc, timer, ret, stopTrace, stopCalls, stopsDone>>
    /\ UNCHANGED <<_started, cpc, cret, tstarted, tstarts, tstops, cstarts, cstops>>
    /\ UNCHANGED <<ioVars, queryVars, commandVars, withVars, parserVars, typeVars>>

\* create_subprocess_exec returns to task t: subprocess_cli.py:57 binds the
\* process to the transport the task created, start() returns, and
\* client.py:74 sets _started.
task_start_resume(t) ==
    /\ spc[t] = "spawning"
    /\ tprocess' = [tprocess EXCEPT ![sown[t]] = spawned[t]]
    /\ _started' = TRUE
    /\ spc' = [spc EXCEPT ![t] = "returned"]
    /\ UNCHANGED <<sown, spawned>>
    /\ UNCHANGED <<_transport, cpc, cret, created, tstarted, tstarts, tstops,
                   cstarts, cstops, passed>>
    /\ UNCHANGED <<transportVars, ioVars, queryVars, commandVars, withVars,
                   parserVars, typeVars>>

task_start == \E t \in Tasks : task_start_call(t)
task_resume == \E t \in Tasks : task_start_resume(t)

\* ------------------------------------------------------- a direct caller
\* A caller that drives one transport itself (spec 4.3, caller-facing
\* contract): any sequence of start / stop / send_message / receive.
caller_start ==
    /\ \E options \in StartOptions : start(options)
    /\ UNCHANGED userVars

\* The caller of send and receive starts its transport once.
caller_open ==
    /\ process = None
    /\ execs = 0
    /\ start(DefaultOptions)
    /\ UNCHANGED userVars

caller_stop ==
    /\ stopCalls < MaxStops
    /\ stop
    /\ UNCHANGED userVars

caller_send ==
    /\ Len(sent) < MaxSends
    /\ \E prompt \in Prompts : send_message(PromptMessage(prompt))
    /\ UNCHANGED userVars

caller_receive == receive_next /\ UNCHANGED userVars

\* The caller starts its transport, once it owns no process, with its
\* configuration.
caller_configure_start ==
    /\ process = None
    /\ start(cfg)
    /\ UNCHANGED userVars

\* A direct call transport._build_command(cfg), between the caller's other
\* calls (test_transport.py:41-85).
caller_build_command ==
    /\ tpc = "idle"
    /\ builds < MaxBuilds
    /\ cmd' = _build_command(cfg)
    /\ cmd0' = IF builds = 0 THEN [cmd |-> cmd', process |-> process] ELSE cmd0
    /\ builds' = builds + 1
    /\ UNCHANGED cfg
    /\ UNCHANGED <<transportVars, ioVars, queryVars, clientVars, withVars, parserVars, typeVars, taskVars>>

\* A caller that drives one KiroSDKClient itself.
caller_client_start ==
    /\ cstarts < MaxClientCalls
    /\ client_start
    /\ UNCHANGED <<queryVars, commandVars, withVars, parserVars, typeVars, taskVars>>

caller_client_stop ==
    /\ cstops < MaxClientCalls
    /\ client_stop
    /\ UNCHANGED <<queryVars, commandVars, withVars, parserVars, typeVars, taskVars>>

\* ------------------------------------------------------- parser inputs
\* The content blocks handed to the parser: one of each type, with and
\* without the optional is_error, with a required key missing, with an
\* unexpected extra key, of an unknown type, and without a type.
BlockInputs ==
    {[type |-> "text", text |-> "Hello"],
     [type |-> "text", text |-> "Hello", cache |-> "x"],
     [type |-> "text"],
     [type |-> "tool_use", id |-> "u1", name |-> "Bash", input |-> [command |-> "ls"]],
     [type |-> "tool_use", id |-> "u1", name |-> "Bash", input |-> [command |-> "ls"],
      index |-> "0"],
     [type |-> "tool_use", id |-> "u1", input |-> [command |-> "ls"]],
     [type |-> "tool_result", tool_use_id |-> "u1", content |-> "out"],
     [type |-> "tool_result", tool_use_id |-> "u1", content |-> "out", is_error |-> TRUE],
     [type |-> "tool_result", tool_use_id |-> "u1", content |-> "out", is_error |-> TRUE,
      status |-> "error"],
     [type |-> "image", text |-> "Hello"],
     [text |-> "Hello"]}

\* The blocks that lack one required key each, or all of them.
PartialBlockInputs ==
    {[type |-> "tool_use"],
     [type |-> "tool_use", name |-> "Bash", input |-> [command |-> "ls"]],
     [type |-> "tool_use", id |-> "u1", name |-> "Bash"],
     [type |-> "tool_result"],
     [type |-> "tool_result", content |-> "out"],
     [type |-> "tool_result", tool_use_id |-> "u1"]}

\* The role tags of the messages handed to the parser.
RoleInputs == {"assistant", "user", "tool_result", "system", "Assistant"}

ContentInputs == UNION {[1..n -> BlockInputs] : n \in 0..MaxBlocks}

\* The messages handed to the parser: any role or none, any content or
\* none, with and without tool_use_id, with and without an extra key.
MessageInputs ==
    {[role |-> r, content |-> c] : r \in RoleInputs, c \in ContentInputs}
        \cup {[role |-> r, content |-> c, tool_use_id |-> "u1"] :
                 r \in RoleInputs, c \in ContentInputs}
        \cup {[role |-> r, content |-> c, tool_use_id |-> "u1", model |-> "m1"] :
                 r \in RoleInputs, c \in ContentInputs}
        \cup {[content |-> c] : c \in ContentInputs}
        \cup {[role |-> r] : r \in RoleInputs}

\* The instances a caller constructs: blocks of each class, and messages of
\* each class over the blocks its content is declared to hold
\* (types.py:40, 48, 57).
TextValues == {"Hello", "out"}
TextBlocks == {TextBlock(text) : text \in TextValues}
ToolUseBlocks ==
    {ToolUseBlock("u1", "Bash", [command |-> "ls"]),
     ToolUseBlock("u2", "Read", [path |-> "a.txt"])}
ToolResultBlocks == {ToolResultBlock("u1", "out", e) : e \in BOOLEAN}
Blocks == TextBlocks \cup ToolUseBlocks \cup ToolResultBlocks

SeqsOf(S) == UNION {[1..n -> S] : n \in 0..MaxBlocks}

Messages ==
    {AssistantMessage(c) : c \in SeqsOf(TextBlocks \cup ToolUseBlocks)}
        \cup {UserMessage(c) : c \in SeqsOf(TextBlocks)}
        \cup {ToolResultMessage(u, c) : u \in {"u1", "u2"}, c \in SeqsOf(TextBlocks)}

ParserInputs ==
    {[kind |-> "message", obj |-> m] : m \in MessageInputs}
        \cup {[kind |-> "block", obj |-> b] : b \in BlockInputs \cup PartialBlockInputs}
        \cup {[kind |-> "instance", obj |-> o] : o \in Blocks \cup Messages}

\* A caller decodes the message it holds (test_message_parser.py), once or
\* again.
caller_parse_message ==
    /\ pin.kind = "message"
    /\ Len(pout) < MaxParses
    /\ pout' = Append(pout, parse_message(pin.obj))
    /\ UNCHANGED pin
    /\ UNCHANGED <<transportVars, ioVars, queryVars, commandVars, clientVars, withVars, typeVars, taskVars>>

\* A caller decodes the content block it holds.
caller_parse_content_block ==
    /\ pin.kind = "block"
    /\ Len(pout) < MaxParses
    /\ pout' = Append(pout, parse_content_block(pin.obj))
    /\ UNCHANGED pin
    /\ UNCHANGED <<transportVars, ioVars, queryVars, commandVars, clientVars, withVars, typeVars, taskVars>>

\* A caller encodes the instance it holds and decodes the object it got.
caller_round_trip ==
    /\ pin.kind = "instance"
    /\ Len(pout) < MaxParses
    /\ pout' = Append(pout, IF pin.obj.class \in MessageClasses
                            THEN parse_message(encode_subset(pin.obj))
                            ELSE parse_content_block(encode_block(pin.obj)))
    /\ UNCHANGED pin
    /\ UNCHANGED <<transportVars, ioVars, queryVars, commandVars, clientVars, withVars, typeVars, taskVars>>

\* ------------------------------------------------- instances of the types
\* The tags of the block and message classes.
TagValues == {"text", "tool_use", "tool_result", "assistant", "user"}

\* A caller constructs a block or a message from its fields (test_types.py).
caller_construct ==
    /\ obj = <<>>
    /\ \E o \in Blocks \cup Messages : obj' = <<o>>
    /\ oret' = Ok("__init__")
    /\ UNCHANGED assigns
    /\ UNCHANGED <<transportVars, ioVars, queryVars, commandVars, clientVars, withVars, parserVars, taskVars>>

\* A constructor call that names the tag, TextBlock(text="Hello",
\* type="tool_use"): the tag fields are init=False, so __init__ has no such
\* parameter and raises TypeError.
caller_construct_tagged ==
    /\ obj = <<>>
    /\ oret.ok
    /\ oret' = Raised("__init__", "TypeError")
    /\ UNCHANGED <<obj, assigns>>
    /\ UNCHANGED <<transportVars, ioVars, queryVars, commandVars, clientVars, withVars, parserVars, taskVars>>

\* The values a caller may assign to an attribute of an instance.
AttrValues(o, name) ==
    IF name \in {"type", "role"} THEN TagValues
    ELSE IF name = "text" THEN TextValues
    ELSE IF name = "is_error" THEN BOOLEAN
    ELSE {o[name]}

\* instance.name = value.  The dataclasses are declared without frozen=True
\* (types.py:8, 16, 26, 36, 44, 52), so __setattr__ binds any attribute,
\* the tag included.
caller_setattr ==
    /\ obj # <<>>
    /\ assigns < MaxAssigns
    /\ \E name \in DOMAIN obj[1] \ {"class"} :
         \E value \in AttrValues(obj[1], name) :
            obj' = <<[obj[1] EXCEPT ![name] = value]>>
    /\ oret' = Ok("__setattr__")
    /\ assigns' = assigns + 1
    /\ UNCHANGED <<transportVars, ioVars, queryVars, commandVars, clientVars, withVars, parserVars, taskVars>>

\* ----------------------------------------------------------- environment
proc_exit == \E p \in 1..Len(procs) : ProcExit(p)
proc_close == \E p \in 1..Len(procs) : ProcClose(p)
stdout_line == \E line \in StdoutLines : receive_line(line)

\* ---------------------------------------------------------- specifications
\* The state after construction, for a caller holding the configuration
\* options: KiroSubprocessTransport() owns no process.
Configured(options) ==
    /\ procs = <<>>
    /\ process = None
    /\ tpc = "idle"
    /\ timer = 0
    /\ ret = Ok("init")
    /\ stopTrace = <<>>
    /\ stopCalls = 0
    /\ stopsDone = 0
    /\ wbuf = <<>>
    /\ stdinRecv = <<>>
    /\ sent = <<>>
    /\ gen = "new"
    /\ linesRead = <<>>
    /\ yielded = <<>>
    /\ recvErr = <<>>
    /\ qpc = "init"
    /\ qmsg = <<>>
    /\ qlog = <<>>
    /\ qout = <<>>
    /\ qerr = NoError
    /\ qorig = NoError
    /\ argv = <<>>
    /\ execs = 0
    /\ cfg = options
    /\ cmd = <<>>
    /\ cmd0 = [cmd |-> <<>>, process |-> None]
    /\ builds = 0
    /\ _started = FALSE
    /\ _transport = None
    /\ cpc = "idle"
    /\ cret = Ok("init")
    /\ created = 0
    /\ tstarted = None
    /\ tstarts = 0
    /\ tstops = 0
    /\ cstarts = 0
    /\ cstops = 0
    /\ wpc = "out"
    /\ wval = "none"
    /\ werr = NoError
    /\ wout = NoError
    /\ pout = <<>>
    /\ passed = <<>>
    /\ obj = <<>>
    /\ oret = Ok("init")
    /\ assigns = 0
    /\ spc = [t \in Tasks |-> "idle"]
    /\ sown = [t \in Tasks |-> None]
    /\ spawned = [t \in Tasks |-> None]
    /\ tprocess = <<>>

\* No object is handed to the parser.
NoInput == [kind |-> "none"]

Init == Configured(DefaultOptions) /\ pin = NoInput

\* The caller holds any configuration.
CommandInit == (\E options \in Configs : Configured(options)) /\ pin = NoInput

StopSteps ==
    \/ stop_tick
    \/ stop_wait_exit
    \/ stop_timeout
    \/ stop_kill
    \/ stop_kill_wait

\* The life cycle of one transport driven by a direct caller: start and
\* stop in any order, any number of times.
Next ==
    \/ caller_start
    \/ caller_stop
    \/ StopSteps
    \/ proc_exit
    \/ proc_close

Spec == Init /\ [][Next]_vars

\* The scheduling the life cycle relies on: the event loop runs a coroutine
\* that can go on, time passes while wait_for waits, and a process that was
\* sent SIGKILL exits.
killed_exit == \E p \in 1..Len(procs) : procs[p].sigkill > 0 /\ ProcExit(p)

Fairness ==
    /\ WF_vars(stop_tick)
    /\ WF_vars(stop_wait_exit)
    /\ WF_vars(stop_timeout)
    /\ WF_vars(stop_kill)
    /\ WF_vars(stop_kill_wait)
    /\ WF_vars(killed_exit)

FairSpec == Init /\ [][Next]_vars /\ Fairness

\* The streams of one transport driven by a direct caller: send_message and
\* receive_messages on the started transport, whose process may exit at any
\* time.
IONext ==
    \/ caller_open
    \/ caller_send
    \/ send_drain
    \/ send_return
    \/ send_fail
    \/ caller_receive
    \/ stdout_line
    \/ receive_eof
    \/ proc_exit

IOSpec == Init /\ [][IONext]_vars

\* A transport and the configuration of its caller: _build_command(cfg) is
\* called directly at any point of the transport's life.
CommandNext ==
    \/ caller_build_command
    \/ caller_configure_start
    \/ caller_stop
    \/ StopSteps
    \/ proc_exit

CommandSpec == CommandInit /\ [][CommandNext]_vars

\* The client is constructed with one of the configurations.
ClientInit == (\E options \in StartOptions : Configured(options)) /\ pin = NoInput

\* One KiroSDKClient driven by a direct caller: start() and stop() in any
\* order; its process may exit at any time.
ClientNext ==
    \/ caller_client_start
    \/ caller_client_stop
    \/ client_stop_returned
    \/ StopSteps
    \/ proc_exit
    \/ proc_close

ClientSpec == ClientInit /\ [][ClientNext]_vars

\* One `async with KiroSDKClient(options) as c:` statement.
ContextNext ==
    \/ with_enter
    \/ with_exit
    \/ with_done
    \/ client_stop_returned
    \/ StopSteps
    \/ proc_exit
    \/ proc_close

ContextSpec == ClientInit /\ [][ContextNext]_vars

\* One KiroSDKClient and the options of its caller: start(), stop() and
\* direct _build_command calls in any order.
OptionsNext ==
    \/ caller_client_start
    \/ caller_client_stop
    \/ client_stop_returned
    \/ caller_build_command
    \/ StopSteps
    \/ proc_exit
    \/ proc_close

OptionsSpec == ClientInit /\ [][OptionsNext]_vars

\* One KiroSDKClient whose start() is called by several tasks of one event
\* loop: a task runs until it suspends, and then any task may run.
ConcurrentNext ==
    \/ task_start
    \/ task_resume
    \/ proc_exit
    \/ proc_close

ConcurrentSpec == ClientInit /\ [][ConcurrentNext]_vars

\* One block or message instance in the hands of its caller.
TypesNext ==
    \/ caller_construct
    \/ caller_construct_tagged
    \/ caller_setattr

TypesSpec == Init /\ [][TypesNext]_vars

\* The parser applied to one JSON object.
ParserInit == Configured(DefaultOptions) /\ pin \in ParserInputs

ParserNext ==
    \/ caller_parse_message
    \/ caller_parse_content_block
    \/ caller_round_trip

ParserSpec == ParserInit /\ [][ParserNext]_vars

\* One call of query(), iterated by its consumer.
QueryNext ==
    \/ query_start
    \/ query_send
    \/ query_send_returned
    \/ query_receive
    \/ query_received
    \/ query_parse
    \/ query_resume
    \/ query_close
    \/ query_stop
    \/ query_finish
    \/ StopSteps
    \/ send_drain
    \/ send_return
    \/ send_fail
    \/ stdout_line
    \/ receive_eof
    \/ proc_exit
    \/ proc_close

QuerySpec == Init /\ [][QueryNext]_vars

\* ------------------------------------------------------------ life cycle
Procs == 1..Len(procs)
InStop == tpc \in {"stop_wait", "stop_kill", "stop_killwait"}

\* C2: stop() is idempotent: a stop() on a transport that an earlier stop()
\* already stopped requests no termination again and does not raise.
C2_StopIdempotent ==
    (tpc = "idle" /\ ret.op = "stop" /\ stopsDone >= (IF ret.ok THEN 2 ELSE 1))
        => (ret.ok /\ stopTrace = <<>>)

\* C3: at most one live process per transport: every spawned process that
\* has not exited is the one the transport references.
C3_AtMostOneLiveProcess ==
    \A p \in Procs : Live(p) => p = process

\* C4 (parts): stop() on an owned process is a two-phase escalation in a
\* fixed order.  Waiting starts only after terminate() was requested; SIGKILL is
\* delivered only to the transport's own process, only after SIGTERM was,
\* only with the whole grace period elapsed and the process still running;
\* and a stop() that escalated returns only once the process has exited.
C4_KillStep ==
    \A p \in Procs :
        procs'[p].sigkill > procs[p].sigkill =>
            /\ p = process
            /\ tpc = "stop_kill"
            /\ timer = GracePeriod
            /\ procs[p].sigterm >= 1
            /\ stopTrace = <<"terminate", "timeout">>

C4_StopOrder ==
    /\ InStop => /\ process # None
                 /\ procs[process].termCalls >= 1
                 /\ stopTrace[1] = "terminate"
    /\ tpc \in {"stop_kill", "stop_killwait"} => timer = GracePeriod
    /\ (tpc = "idle" /\ ret = Ok("stop") /\ stopTrace # <<>>) =>
           /\ Exited(process)
           /\ stopTrace \in {<<"terminate", "exited">>,
                             <<"terminate", "timeout", "kill", "exited">>}

\* C4: every step that delivers SIGKILL is a C4_KillStep, and the order of
\* C4_StopOrder holds in every state.
C4_TwoPhaseEscalation == [][C4_KillStep]_vars /\ []C4_StopOrder

C4_Witness ==
    /\ tpc = "idle"
    /\ ret = Ok("stop")
    /\ stopTrace = <<"terminate", "timeout", "kill", "exited">>
    /\ procs[process].sigkill = 1

\* C5: stop() never hangs: under the scheduling of Fairness, whose only
\* assumption on the process is that a killed process exits, every stop()
\* in progress on an owned process comes to its end.
C5_StopTerminates == InStop ~> (tpc = "idle" /\ ret.op = "stop")

C5_Witness ==
    /\ tpc = "stop_killwait"
    /\ Live(process)
    /\ procs[process].sigterm = 1
    /\ procs[process].sigkill = 1

\* --------------------------------------------------------------- streams
Front(q) == SubSeq(q, 1, Len(q) - 1)

\* The texts of the lines of a stream that are not blank once stripped, in
\* stream order.
Texts(lines) ==
    SelectSeq([i \in 1..Len(lines) |-> strip(lines[i])], LAMBDA t : t # <<>>)
Malformed(l) == strip(l) # <<>> /\ ~json_loads(strip(l)).ok

\* C6: as long as no line is malformed, receive_messages has yielded exactly
\* the parsed objects of the non-blank lines read so far, one per line and
\* in stream order (blank lines yield nothing and raise nothing); the
\* generator never reads on after the stream closed.
C6_ReceiveYieldsNonBlankLines ==
    LET texts == Texts(linesRead)
    IN  /\ (\A i \in 1..Len(texts) : json_loads(texts[i]).ok) =>
               /\ recvErr = <<>>
               /\ gen # "raised"
               /\ yielded = [i \in 1..Len(texts) |-> json_loads(texts[i]).val]
        /\ gen = "done" => tpc # "recv"
        /\ (tpc = "idle" /\ "end" \in DOMAIN ret) => gen \in {"done", "raised"}

C6_Witness ==
    /\ gen = "done"
    /\ linesRead = <<json_dumps(ObjAssistant) \o <<NL>>, <<SP, SP, NL>>,
                     <<SP>> \o json_dumps(ObjToolResult) \o <<NL>>>>
    /\ yielded = <<ObjAssistant, ObjToolResult>>

\* C7: a malformed line makes receive_messages raise CLIJSONDecodeError
\* carrying that line; the well-formed lines before it have been yielded in
\* order, and nothing is read or yielded after it.
C7_MalformedLineIsFatal ==
    LET n == Len(linesRead)
        before == Texts(Front(linesRead))
    IN  /\ \A i \in 1..Len(before) : json_loads(before[i]).ok
        /\ (n > 0 /\ Malformed(linesRead[n])) <=> gen = "raised"
        /\ gen = "raised" =>
               /\ recvErr = <<[err |-> "CLIJSONDecodeError",
                               raw_output |-> linesRead[n]]>>
               /\ yielded = [i \in 1..Len(before) |-> json_loads(before[i]).val]
               /\ tpc # "recv"
        /\ recvErr # <<>> => gen = "raised"

C7_Witness ==
    /\ gen = "raised"
    /\ Len(linesRead) = 3
    /\ yielded = <<ObjUnknownRole>>
    /\ recvErr[1].raw_output = <<LB, Junk, NL>>
    /\ tpc = "idle"
    /\ "end" \in DOMAIN ret

\* The bytes successive send_message calls put on the input stream.
RECURSIVE Wire(_)
Wire(messages) ==
    IF messages = <<>> THEN <<>>
    ELSE Wire(Front(messages)) \o <<LB, Mem(messages[Len(messages)]), RB, NL>>

\* C8: the input stream holds, in call order, one line per send_message
\* call: the serialization of the message and one newline, nothing merged
\* or reordered; a send_message that returned has drained all of it.
C8_SendWritesOneLinePerCall ==
    /\ stdinRecv \o wbuf = Wire(sent)
    /\ (tpc = "idle" /\ ret = Ok("send")) =>
           /\ wbuf = <<>>
           /\ stdinRecv = Wire(sent)
           /\ Len(SelectSeq(stdinRecv, LAMBDA t : t = NL)) = Len(sent)

C8_Witness ==
    /\ tpc = "idle"
    /\ ret = Ok("send")
    /\ sent = <<PromptMessage("Hi"), PromptMessage("What is 2 + 2?")>>
    /\ stdinRecv = <<LB, Mem(PromptMessage("Hi")), RB, NL,
                     LB, Mem(PromptMessage("What is 2 + 2?")), RB, NL>>

\* ---------------------------------------------------------------- query()
Count(e, log) == Len(SelectSeq(log, LAMBDA x : x = e))

\* C1: query() stops the transport on every exit path: when it has finished,
\* transport.stop() was invoked exactly once, and what the caller gets is
\* the error raised inside the try body, unchanged (none on a normal end).
C1_QueryStopsTransport ==
    qpc = "done" => /\ Count("stop", qlog) = 1
                    /\ qerr = qorig

\* C9: query() uses the transport in the order start, send, receive, stop.
\* start comes first; the prompt object is sent once it succeeded, exactly
\* once, and has been drained before any line of the response is read; a
\* message is yielded only right after the receive that produced it; stop
\* is the last call, so nothing is read or yielded after it.
C9_QueryCallOrder ==
    /\ \A i \in 1..Len(qlog) :
           /\ qlog[i] = "start" <=> i = 1
           /\ qlog[i] = "send" => i = 2
           /\ qlog[i] = "receive" => i >= 3 /\ qlog[2] = "send"
           /\ qlog[i] = "yield" => qlog[i - 1] = "receive"
           /\ qlog[i] = "stop" => i = Len(qlog)
    /\ Count("send", qlog) = Len(sent)
    /\ \A i \in 1..Len(sent) :
           /\ process # None
           /\ \E prompt \in Prompts : sent[i] = [role |-> "user", content |-> prompt]
    /\ linesRead # <<>> => Len(sent) = 1 /\ stdinRecv = Wire(sent)
    /\ Count("yield", qlog) = Len(qout)
    /\ qpc \in {"stopping", "done"} <=> Count("stop", qlog) = 1
    /\ (qpc = "done" /\ process # None) => Count("send", qlog) = 1
    /\ qpc \in {"stopping", "done"} => tpc \notin {"recv", "send_drain"}

C9_Witness ==
    /\ qpc = "done"
    /\ qlog = <<"start", "send", "receive", "yield", "receive", "yield",
                "receive", "stop">>
    /\ qerr = NoError

\* C10: the messages query() yields are, one for one and in order, the
\* decodings by parse_message of the objects receive_messages yielded, up to
\* the first object that fails to decode, whose error ends the query.
C10_QueryYieldsDecodedObjects ==
    /\ Len(qout) <= Len(yielded)
    /\ Len(yielded) <= Len(qout) + 1
    /\ \A i \in 1..Len(qout) : parse_message(yielded[i]) = Value(qout[i])
    /\ Len(yielded) = Len(qout) + 1 =>
           \/ /\ qpc \in {"receiving", "parse"}
              /\ qmsg \in {<<>>, <<yielded[Len(yielded)]>>}
           \/ /\ ~parse_message(yielded[Len(yielded)]).ok
              /\ qpc \in {"finally", "stopping", "done"}
              /\ qorig.err = parse_message(yielded[Len(yielded)]).err
              /\ qorig.arg = parse_message(yielded[Len(yielded)]).arg

C10_Witness ==
    /\ qpc = "done"
    /\ yielded = <<ObjAssistant, ObjToolResult, ObjUnknownBlock>>
    /\ qout = <<AssistantMessage(<<TextBlock("Hello"),
                                    ToolUseBlock("u1", "Bash", [command |-> "ls"])>>),
                ToolResultMessage("u1", <<TextBlock("out")>>)>>
    /\ qorig = [err |-> "ValueError", arg |-> "image"]

\* ------------------------------------------------------- failed start
Flag(b) == IF b THEN 1 ELSE 0
IsSet(v) == v # PyNone
NonEmpty(v) == v # PyNone /\ v # PyList(<<>>)
Contains(text, piece) == \E i \in DOMAIN text : text[i] = piece

\* C11: a start() whose spawn fails because the executable is not found
\* raises CLINotFoundError and nothing else; the message names the path that
\* was attempted (cli_path if set, otherwise kiro-cli) and both remedies;
\* the spawn was attempted once; the owned process is what it was before.
C11_FailedStart ==
    (execs' # execs /\ "cause" \in DOMAIN ret' /\ ret'.cause = "FileNotFoundError")
        => /\ ret'.op = "start"
           /\ ret'.err = "CLINotFoundError"
           /\ \A options \in StartOptions :
                  argv' = _build_command(options) =>
                      /\ argv'[1] = IF IsSet(options.cli_path)
                                    THEN options.cli_path.s ELSE <<"kiro-cli">>
                      /\ Contains(ret'.msg, argv'[1][1])
           /\ Contains(ret'.msg, "Please install kiro-cli")
           /\ Contains(ret'.msg, "specify cli_path in options")
           /\ execs' = execs + 1
           /\ process' = process
           /\ procs' = procs
           /\ tpc' = "idle"

C11_StartFailsWithCLINotFound == [][C11_FailedStart]_vars

C11_Witness ==
    /\ ret.op = "start"
    /\ ret.err = "CLINotFoundError"
    /\ argv[1] = <<"/opt/kiro/bin/kiro-cli">>
    /\ process # None
    /\ Live(process)

\* C12: stop() on a transport that owns no process (never started, or
\* started without success) sends no signal, waits on nothing, raises
\* nothing and leaves the transport as it was.
C12_StopCall ==
    (stopCalls' # stopCalls /\ process = None)
        => /\ ret' = Ok("stop")
           /\ stopTrace' = <<>>
           /\ tpc' = "idle"
           /\ UNCHANGED <<procs, process, timer, execVars, ioVars>>

C12_StopWithoutProcessIsNoOp == [][C12_StopCall]_vars

C12_Witness ==
    /\ process = None
    /\ execs > 0
    /\ ret = Ok("stop")
    /\ stopCalls > 0

\* --------------------------------------------------------------- client
\* C13: KiroSDKClient.start() is idempotent: on a started client it is a
\* no-op, so between two stops at most one transport is created and started
\* however many times start() is called; after a start() that returned,
\* _started is true and _transport is the started transport, started with
\* the client's own options.
C13_StartedStartIsNoOp ==
    (cstarts' # cstarts /\ _started)
        => /\ cret' = Ok("client.start")
           /\ UNCHANGED <<_started, _transport, created, tstarted>>
           /\ UNCHANGED <<procs, process, execVars, ioVars>>

C13_AfterStart ==
    /\ tstarts <= 1
    /\ cret = Ok("client.start") =>
           /\ _started
           /\ _transport # None
           /\ _transport = tstarted
           /\ argv = _build_command(_options.val)

C13_ClientStartIdempotent ==
    /\ []C13_AfterStart
    /\ [][C13_StartedStartIsNoOp]_vars

C13_Witness ==
    /\ cstarts >= 2
    /\ cstops = 0
    /\ created = 1
    /\ _started
    /\ cret = Ok("client.start")
    /\ process # None

\* C14: KiroSDKClient.stop() is idempotent and safe without start: the
\* transport's stop() is awaited at most once for each start() that
\* returned, _started is false once stop() has returned, and stop() on a
\* client that was never started raises nothing and leaves _started false
\* and _transport None.
C14_ClientStopIdempotent ==
    /\ tstops <= 1
    /\ (cpc = "idle" /\ cret = Ok("client.stop")) => ~_started
    /\ cstarts = 0 =>
           /\ ~_started
           /\ _transport = None
           /\ cret.ok

\* C15: `async with client` awaits start() once on entry and binds the
\* client itself, awaits stop() once on exit, also when the body raises,
\* and the exception of the body is the one that leaves the statement.
C15_ContextManager ==
    /\ wpc = "body" => (cstarts = 1 /\ cstops = 0 /\ wval = "self" /\ _started)
    /\ wpc = "exiting" => (cstarts = 1 /\ cstops = 1)
    /\ (wpc = "done" /\ wval = "self") =>
           /\ cstarts = 1
           /\ cstops = 1
           /\ werr # NoError => wout = werr

\* -------------------------------------------------------- command line
\* The names of a non-empty list, separated by commas, in their order.
CommaJoined(names) ==
    [i \in 1..(2 * Len(names) - 1) |->
        IF i % 2 = 1 THEN names[(i + 1) \div 2][1] ELSE ","]

Positions(token) == {i \in DOMAIN cmd : cmd[i] = <<token>>}

\* C16: build_command returns exactly: the executable path (cli_path if set,
\* otherwise kiro-cli), chat, --no-interactive, then --trust-tools and the
\* comma-joined allowed_tools iff allowed_tools is non-empty, then
\* --trust-all-tools iff trust_all_tools, then --resume and the session
\* identifier iff resume_session is set, then one -v per unit of verbose.
C16_BuildCommandSequence ==
    builds > 0 =>
        LET iAll == 4 + 2 * Flag(NonEmpty(cfg.allowed_tools))
            iResume == iAll + Flag(cfg.trust_all_tools)
            iVerbose == iResume + 2 * Flag(IsSet(cfg.resume_session))
        IN  /\ Len(cmd) = iVerbose - 1 + cfg.verbose
            /\ cmd[1] = IF IsSet(cfg.cli_path) THEN cfg.cli_path.s ELSE <<"kiro-cli">>
            /\ cmd[2] = <<"chat">>
            /\ cmd[3] = <<"--no-interactive">>
            /\ NonEmpty(cfg.allowed_tools) =>
                   /\ cmd[4] = <<"--trust-tools">>
                   /\ cmd[5] = CommaJoined(cfg.allowed_tools.items)
            /\ cfg.trust_all_tools => cmd[iAll] = <<"--trust-all-tools">>
            /\ IsSet(cfg.resume_session) =>
                   /\ cmd[iResume] = <<"--resume">>
                   /\ cmd[iResume + 1] = cfg.resume_session.s
            /\ \A i \in iVerbose..Len(cmd) : cmd[i] = <<"-v">>

C16_Witness ==
    /\ builds > 0
    /\ IsSet(cfg.cli_path)
    /\ cfg.allowed_tools = PyList(<< <<"Bash">>, <<"Read">> >>)
    /\ cfg.trust_all_tools
    /\ IsSet(cfg.resume_session)
    /\ cfg.verbose = 2
    /\ Len(cmd) = 10

\* C17: build_command is a pure function of the configuration: a later call
\* returns the sequence the first call returned, whatever the transport's
\* state at either call; a call changes neither the configuration nor the
\* transport; an unset or empty optional field contributes no token.
C17_Same ==
    builds > 1 => cmd = cmd0.cmd

C17_NoToken ==
    builds > 0 =>
        /\ ~NonEmpty(cfg.allowed_tools) => Positions("--trust-tools") = {}
        /\ ~cfg.trust_all_tools => Positions("--trust-all-tools") = {}
        /\ ~IsSet(cfg.resume_session) => Positions("--resume") = {}
        /\ cfg.verbose = 0 => Positions("-v") = {}
        /\ (/\ ~NonEmpty(cfg.allowed_tools)
            /\ ~cfg.trust_all_tools
            /\ ~IsSet(cfg.resume_session)
            /\ cfg.verbose = 0) => Len(cmd) = 3

C17_NoEffect ==
    builds' # builds => UNCHANGED <<cfg, transportVars, ioVars>>

C17_BuildCommandPure ==
    /\ [](C17_Same /\ C17_NoToken)
    /\ [][C17_NoEffect]_vars

C17_Witness ==
    /\ builds = 2
    /\ cmd0.process = None
    /\ process # None
    /\ cfg.allowed_tools = PyList(<<>>)
    /\ IsSet(cfg.resume_session)
    /\ cmd = cmd0.cmd

\* C18: the sequence build_command returns holds exactly verbose -v tokens,
\* whatever the other fields of the configuration are.
C18_VerboseCount ==
    builds > 0 => Cardinality(Positions("-v")) = cfg.verbose

C18_Witness ==
    /\ builds > 0
    /\ cfg.verbose = 2
    /\ NonEmpty(cfg.allowed_tools)
    /\ IsSet(cfg.resume_session)
    /\ Cardinality(Positions("-v")) = 2

\* C19: the allow-list and the trust-all flag are independent: a non-empty
\* allowed_tools gives --trust-tools immediately followed by the names
\* joined by commas, trust_all_tools gives --trust-all-tools, and with both
\* set both are emitted, the allow-list first; neither suppresses the other.
C19_TrustFlagsIndependent ==
    builds > 0 =>
        /\ NonEmpty(cfg.allowed_tools) <=> Positions("--trust-tools") # {}
        /\ cfg.trust_all_tools <=> Positions("--trust-all-tools") # {}
        /\ \A i \in Positions("--trust-tools") :
               /\ i < Len(cmd)
               /\ cmd[i + 1] = CommaJoined(cfg.allowed_tools.items)
               /\ \A j \in Positions("--trust-all-tools") : i + 1 < j

C19_Witness ==
    /\ builds > 0
    /\ cfg.allowed_tools = PyList(<< <<"Bash">>, <<"Read">> >>)
    /\ cfg.trust_all_tools
    /\ Positions("--trust-tools") # {}
    /\ Positions("--trust-all-tools") # {}

\* --------------------------------------------------------------- parser
MessageRoles == {"assistant", "user", "tool_result"}
BlockTypes == {"text", "tool_use", "tool_result"}

\* C20: decoding a message whose role is outside {assistant, user,
\* tool_result} fails with the unknown-role error carrying that role, and
\* decoding a block whose type is outside {text, tool_use, tool_result}
\* fails with the unknown-type error carrying that type; neither produces a
\* value.
C20_UnknownTagIsRejected ==
    pout # <<>> =>
        /\ (pin.kind = "message" /\ Get(pin.obj, "role") \notin MessageRoles) =>
               pout[1] = [ok |-> FALSE, err |-> "ValueError",
                          what |-> "Unknown message role: ",
                          arg |-> Get(pin.obj, "role")]
        /\ (pin.kind = "block" /\ Get(pin.obj, "type") \notin BlockTypes) =>
               pout[1] = [ok |-> FALSE, err |-> "ValueError",
                          what |-> "Unknown content block type: ",
                          arg |-> Get(pin.obj, "type")]

C20_Witness ==
    /\ pin.kind = "message"
    /\ pin.obj = [role |-> "system",
                  content |-> <<[type |-> "text", text |-> "Hello"]>>]
    /\ pout # <<>>
    /\ ~pout[1].ok
    /\ pout[1].arg = "system"

\* ------------------------------------------------- decoding and the types
\* The keys parse_message reads from a message of each role.
MessageKeys(role) ==
    IF role = "tool_result" THEN {"role", "content", "tool_use_id"}
    ELSE {"role", "content"}

\* A block without the keys the parser does not read from its type.
WithoutExtraKeys(block) ==
    IF Get(block, "type") \in BlockTypes
    THEN [k \in DOMAIN block \cap BlockKeys(block.type) |-> block[k]]
    ELSE block

\* A message without the keys the parser does not read from it and its
\* blocks.
MessageWithoutExtraKeys(data) ==
    [k \in DOMAIN data \cap MessageKeys(data.role) |->
        IF k = "content"
        THEN [i \in 1..Len(data.content) |-> WithoutExtraKeys(data.content[i])]
        ELSE data[k]]

\* The keys a block of each type, and a message of each role, must carry.
RequiredKeys(block_type) == BlockKeys(block_type) \ {"type", "is_error"}
Complete(block) ==
    /\ Get(block, "type") \in BlockTypes
    /\ RequiredKeys(block.type) \subseteq DOMAIN block
CompleteMessage(data) ==
    /\ Get(data, "role") \in MessageRoles
    /\ MessageKeys(data.role) \subseteq DOMAIN data
    /\ \A i \in 1..Len(data.content) : Complete(data.content[i])

\* C21: the parser fails on an unrecognized tag, never on a key it does not
\* read: an object with a recognized tag decodes to what the same object
\* without its extra keys decodes to, a complete one decodes whatever extra
\* keys it or its blocks carry, and decoding the same object again gives the
\* same outcome.
C21_ExtraKeysAreIgnored ==
    /\ \A i \in 1..Len(pout) : pout[i] = pout[1]
    /\ (pout # <<>> /\ pin.kind = "block") =>
          /\ Get(pin.obj, "type") \in BlockTypes =>
                pout[1] = parse_content_block(WithoutExtraKeys(pin.obj))
          /\ Complete(pin.obj) => pout[1].ok
    /\ (pout # <<>> /\ pin.kind = "message") =>
          /\ (Get(pin.obj, "role") \in MessageRoles /\ "content" \in DOMAIN pin.obj) =>
                pout[1] = parse_message(MessageWithoutExtraKeys(pin.obj))
          /\ CompleteMessage(pin.obj) => pout[1].ok

\* An assistant message with an extra key, holding a block with an extra
\* key, was decoded twice.
C21_Witness ==
    /\ pin.kind = "message"
    /\ pin.obj = [role |-> "assistant", tool_use_id |-> "u1", model |-> "m1",
                  content |-> <<[type |-> "text", text |-> "Hello", cache |-> "x"]>>]
    /\ Len(pout) = MaxParses
    /\ pout[1] = Value(AssistantMessage(<<TextBlock("Hello")>>))

\* C22: a block or message with a recognized tag that lacks a required key
\* fails with the KeyError of a key it lacks (the first block that fails
\* decides for a message), and is never decoded with a default in its
\* place; is_error alone is optional and is False when absent.
C22_MissingKeyIsKeyError ==
    /\ (pout # <<>> /\ pin.kind = "block" /\ Get(pin.obj, "type") \in BlockTypes) =>
          LET lacking == RequiredKeys(pin.obj.type) \ DOMAIN pin.obj
          IN  /\ lacking # {} =>
                    /\ ~pout[1].ok
                    /\ pout[1].err = "KeyError"
                    /\ pout[1].arg \in lacking
              /\ lacking = {} =>
                    /\ pout[1].ok
                    /\ \A k \in RequiredKeys(pin.obj.type) : pout[1].val[k] = pin.obj[k]
                    /\ pin.obj.type = "tool_result" =>
                          pout[1].val.is_error =
                              IF "is_error" \in DOMAIN pin.obj
                              THEN pin.obj.is_error ELSE FALSE
    /\ (pout # <<>> /\ pin.kind = "message" /\ Get(pin.obj, "role") \in MessageRoles) =>
          /\ "content" \notin DOMAIN pin.obj => pout[1] = KeyError("content")
          /\ ("content" \in DOMAIN pin.obj
                /\ (\E i \in 1..Len(pin.obj.content) :
                      /\ Get(pin.obj.content[i], "type") \in BlockTypes
                      /\ ~Complete(pin.obj.content[i]))) => ~pout[1].ok
          /\ ("content" \in DOMAIN pin.obj
                /\ (\A i \in 1..Len(pin.obj.content) : Complete(pin.obj.content[i]))
                /\ pin.obj.role = "tool_result"
                /\ "tool_use_id" \notin DOMAIN pin.obj) =>
                pout[1] = KeyError("tool_use_id")

\* A tool_use block without its name was handed to the parser.
C22_Witness ==
    /\ pin.kind = "block"
    /\ pin.obj = [type |-> "tool_use", id |-> "u1", input |-> [command |-> "ls"]]
    /\ pout # <<>>
    /\ pout[1] = KeyError("name")

\* The block types the content of each message class is declared to hold
\* (types.py:40, 48, 57).
AllowedBlockTypes(role) ==
    IF role = "assistant" THEN {"text", "tool_use"} ELSE {"text"}

\* C23: every message parse_message returns holds only the blocks its
\* variant admits: text and tool_use for assistant, text for user and for
\* tool_result.
C23_DecodedBlocksRespectVariant ==
    (pout # <<>> /\ pin.kind = "message" /\ pout[1].ok) =>
        \A i \in 1..Len(pout[1].val.content) :
            pout[1].val.content[i].type \in AllowedBlockTypes(pout[1].val.role)

\* C24: decoding the encoding of a block or message gives the instance
\* back: its class, its tag, its fields (tool_use_id, input, is_error) and
\* the order of its blocks.
C24_RoundTrip ==
    pin.kind = "instance" => \A i \in 1..Len(pout) : pout[i] = Value(pin.obj)

\* An assistant message of a text block and a tool_use block went through
\* encode_subset and parse_message.
C24_Witness ==
    /\ pin.kind = "instance"
    /\ pin.obj = AssistantMessage(<<TextBlock("out"),
                                    ToolUseBlock("u2", "Read", [path |-> "a.txt"])>>)
    /\ pout # <<>>
    /\ pout[1].ok
    /\ pout[1].val.content[2].input = [path |-> "a.txt"]

\* C25: the tag of an instance is the tag of its class in every state: a
\* constructor call that names a tag constructs nothing, and no assignment
\* changes the tag afterwards.
C25_TagIsWriteOnce ==
    /\ ~oret.ok => obj = <<>>
    /\ obj # <<>> => obj[1][TagField(obj[1])] = ClassTag(obj[1].class)

\* C26: parse_message checks the role before it decodes a block, decodes
\* the blocks in array order, fails with the error of the first block that
\* does not decode, and returns a message only with every block decoded.
C26_EagerAllOrNothing ==
    (pout # <<>> /\ pin.kind = "message") =>
        /\ Get(pin.obj, "role") \notin MessageRoles =>
              /\ ~pout[1].ok
              /\ pout[1].err = "ValueError"
              /\ pout[1].arg = Get(pin.obj, "role")
        /\ (Get(pin.obj, "role") \in MessageRoles /\ "content" \in DOMAIN pin.obj) =>
              LET blocks == pin.obj.content
                  bad == {i \in 1..Len(blocks) : ~parse_content_block(blocks[i]).ok}
              IN  /\ bad # {} =>
                        \E i \in bad :
                            /\ \A j \in bad : i <= j
                            /\ pout[1] = parse_content_block(blocks[i])
                  /\ pout[1].ok =>
                        /\ bad = {}
                        /\ Len(pout[1].val.content) = Len(blocks)
                        /\ \A i \in 1..Len(blocks) :
                              pout[1].val.content[i] = parse_content_block(blocks[i]).val

\* A user message whose first block lacks its text and whose second block
\* is of an unknown type failed with the error of the first.
C26_Witness ==
    /\ pin.kind = "message"
    /\ pin.obj = [role |-> "user",
                  content |-> <<[type |-> "text"], [type |-> "image", text |-> "Hello"]>>]
    /\ pout # <<>>
    /\ pout[1] = KeyError("text")

\* ------------------------------------------------ the client's life cycle
\* C27: no step of the client, the transport or a _build_command call
\* changes a field of the caller's options, and the object the client hands
\* to transport.start is the caller's own, not a copy.
C27_OptionsAreNotMutated ==
    /\ [][cfg' = cfg]_vars
    /\ [](passed # <<>> => passed[1] = [ref |-> "options", val |-> cfg])

\* The client was started with the caller's options and stopped, and
\* _build_command was called directly.
C27_Witness ==
    /\ passed = <<_options>>
    /\ argv = _build_command(cfg)
    /\ builds > 0
    /\ cstops > 0
    /\ stopsDone > 0
    /\ ~_started

\* C28: a stop() of a transport whose process had exited on its own (no
\* signal was ever delivered to it) returns without raising and sends no
\* kill.
C28_StopAfterExitReturns ==
    (/\ tpc = "idle"
     /\ ret.op = "stop"
     /\ process # None
     /\ procs[process].termCalls > 0
     /\ procs[process].sigterm = 0) =>
        /\ ret.ok
        /\ Count("kill", stopTrace) = 0

C29_StartCall == cstarts' = cstarts + 1
C29_StopCall == cstops' = cstops + 1

\* C29: _started is true only while _transport is the instance whose
\* start() returned.  A start() of a client that is not started creates a
\* new transport and starts it; if that raises, the error reaches the
\* caller and _started stays false.  A stop() of a client that is not
\* started calls no transport.stop().
C29_StartedOnlyAfterStartReturned ==
    /\ [](_started => _transport # None /\ _transport = tstarted)
    /\ [][/\ (C29_StartCall /\ ~_started) =>
               /\ created' = created + 1
               /\ _transport' = created'
               /\ execs' = execs + 1
               /\ ret'.ok => _started' /\ cret' = Ok("client.start")
               /\ ~ret'.ok => ~_started' /\ cret' = Raised("client.start", ret'.err)
          /\ (C29_StopCall /\ ~_started) =>
               /\ stopCalls' = stopCalls
               /\ tstops' = tstops
               /\ cret' = Ok("client.stop")
               /\ ~_started']_vars

\* start() raised, a stop() followed without a transport.stop(), and a
\* later start() started a second transport.
C29_Witness ==
    /\ created = 2
    /\ _transport = 2
    /\ tstarted = 2
    /\ _started
    /\ cstops > 0
    /\ stopCalls = 0
    /\ Len(procs) = 1

\* C30: whatever the interleaving of the start() calls of the tasks, the
\* client creates at most one transport and spawns at most one process, and
\* once no task is suspended every spawned process is the process of the
\* transport _transport refers to.
C30_StartGuardUnderInterleaving ==
    /\ created <= 1
    /\ Len(procs) <= 1
    /\ (\A t \in Tasks : spc[t] # "spawning") =>
          \A p \in 1..Len(procs) :
             /\ _transport # None
             /\ tprocess[_transport] = p

====
